---- MODULE Spec2Model ----
(***************************************************************************)
(* Client-side trace pipeline of the agentreplay Python SDK:               *)
(*   - ActiveSpan life cycle, parent linkage through the _current_span     *)
(*     ContextVar, hand-off of edges to the batching client                *)
(*     (sdks/python/src/agentreplay/decorators.py, sdk.py);                *)
(*   - AgentContext / ContextScope activation over the four context        *)
(*     ContextVars (sdks/python/src/agentreplay/context.py);               *)
(*   - payload redaction (sdks/python/src/agentreplay/privacy.py).         *)
(*                                                                         *)
(* An execution unit (OS thread or asyncio task) owns one contextvars      *)
(* Context.  asyncio.create_task copies the creator's Context; a new       *)
(* threading.Thread starts from an empty Context.                          *)
(***************************************************************************)
EXTENDS Integers, Sequences, FiniteSets, TLC

\* ------------------------------------------------------------------ bounds
MaxSpans    == 3      \* ActiveSpan objects created in one run
MaxUnits    == 2      \* execution units (unit 1 is the main thread)
MaxClock    == 2      \* readings of time.time() are 0..MaxClock
MaxDepth    == 2      \* nesting depth of `with` blocks in one unit
MaxSetCalls == 2      \* calls of span mutators in one run
MaxQueue    == 2      \* max_queue_size handed to the batching client
MaxPairSpans == 2     \* spans in the runs about one span or one parent/child pair
MaxPayloadSpans == 1  \* spans in the runs about payloads
MaxHandles  == 2      \* AgentContext / ContextScope objects
MaxEnters   == 2      \* __enter__ calls on spans in one run
MaxCtxEnters == 3     \* __enter__ calls on context handles in one run
MaxGlobalEnters == 2  \* the same in the runs about the global defaults
MaxPatterns == 2      \* entries of PrivacyConfig.redact_patterns
MaxFrames   == 2      \* sdk calls in progress in one thread, handlers included
MaxLeaked   == 2      \* batching clients dropped without close() in one run
MaxCallbacks == 4     \* LangChain callbacks delivered to one handler
MaxChunks   == 2      \* chunks of a streaming response
MaxBlocks   == 3      \* privacy_context blocks entered in one run
MaxHookRuns == 4      \* hook processes started in one run
MaxExitRuns == 2      \* the same in the runs over every input of a hook
MaxRaceRuns == 3      \* the same in the runs of concurrent hooks

Units   == 1..MaxUnits
SpanIds == 1..MaxSpans
Handles == 1..MaxHandles

\* ------------------------------------------------------------ plain values
None    == "None"     \* Python None for string-valued slots
NoSpan  == 0          \* Python None for span-valued slots
NoTime  == -1         \* end_time is None
NoToken == [var |-> "None", ctx |-> 0, old_value |-> 0, id |-> 0]
NoClient == [live |-> FALSE]      \* _batching_client is None
NoConfig == [set |-> FALSE]       \* _config is None
NoHooks == [atexit |-> FALSE, signal |-> FALSE]
NoReturn == -1                    \* hist.ret when flush() has returned nothing

REDACTED == "[REDACTED]"

\* Payloads the callers pass to set_input / set_output: a string, or a
\* one-key dict {"password": <string>}.  "long" stands for a string whose
\* JSON form is longer than max_size of _safe_serialize.
Strings == {"hello", "a@b.co", "long"}
NonePayload == [t |-> "none"]
Str(s) == [t |-> "str", v |-> s]
Dict(s) == [t |-> "dict", items |-> [k \in {"password"} |-> Str(s)]]
Payloads == {Str(s) : s \in Strings} \cup {Dict(s) : s \in Strings}
Num(n) == [t |-> "int", v |-> n]
List(items) == [t |-> "list", items |-> items]
Tuple(items) == [t |-> "tuple", items |-> items]
Map(items) == [t |-> "dict", items |-> items]
NoCall == [op |-> "none"]
MissingFile == [kind |-> "missing"]    \* the state file does not exist
NoStream == [span |-> NoSpan, remaining |-> 0, delivered |-> 0, raised |-> FALSE]
NoCallback == [n |-> 0, op |-> "none", key |-> "", exc |-> None, created |-> 0]

VARIABLES
  now,               \* wall clock read by time.time()
  spans,             \* sequence of ActiveSpan objects, span_id = index
  cv,                \* cv[u]: values of the ContextVars in unit u's Context
  usedTokens,        \* ids of ContextVar tokens already consumed by reset()
  nextToken,         \* id of the next Token object
  units,             \* units[u]: "unborn", "main", "task" or "thread"
  withStack,         \* withStack[u]: `with` blocks open in unit u, innermost last
  _initialized,      \* sdk._initialized
  _config,           \* sdk._config
  _batching_client,  \* sdk._batching_client
  _privacy_config,   \* privacy._privacy_config
  handles,           \* AgentContext / ContextScope objects
  insertLog,         \* history of client.insert(edge) calls
  raised,            \* exception that left the last operation
  hist,              \* history counters and flags used to state properties
  _global_context,   \* context._global_context
  redactCall,        \* the last redact_payload call: argument and result
  wrapperCall,       \* the last call of a wrapped client method
  _client,           \* sdk._client
  hooks,             \* atexit / signal handlers registered by init()
  _lock,             \* sdk._lock: 0 when free, else the thread holding it
  pc,                \* pc[t]: frames of the sdk calls in progress in thread t
  active_spans,      \* FlowtraceCallback.active_spans: run id -> (span, start)
  sent,              \* history of Flowtrace.send_span(span, duration) calls
  callback,          \* the last LangChain callback: its key and its outcome
  stream,            \* the streaming response last returned by a wrapper
  blocks,            \* the privacy_context objects entered so far
  STATE_FILE,        \* contents of the Claude Code plugin's state file
  procs,             \* the hook processes started so far
  toolCalls,         \* the tool invocations the hooks were run for
  clock_ms           \* int(time.time() * 1000) as the hooks read it

\* the global defaults, the redaction call and the wrapped call
ctxOthers == <<_global_context, redactCall, wrapperCall>>

\* the sdk state beside _initialized, _config and _batching_client
sdkOthers == <<_client, hooks, _lock, pc>>

\* the LangChain callback handler of the examples
hookVars == <<STATE_FILE, procs, toolCalls, clock_ms>>

extOthers == <<active_spans, sent, callback, stream, blocks, hookVars>>

\* the state outside the span pipeline and the scoped context
others == <<ctxOthers, sdkOthers, extOthers>>

vars == <<now, spans, cv, usedTokens, nextToken, units, withStack,
          _initialized, _config, _batching_client, _privacy_config,
          handles, insertLog, raised, hist, others>>

\* ---------------------------------------------------------------- helpers
Put(d, k, v) == [x \in (DOMAIN d) \cup {k} |-> IF x = k THEN v ELSE d[x]]

Update(d, e) == [x \in (DOMAIN d) \cup (DOMAIN e) |->
                   IF x \in DOMAIN e THEN e[x] ELSE d[x]]

EmptyDict == [x \in {} |-> None]

Last(s) == s[Len(s)]

Front(s) == SubSeq(s, 1, Len(s) - 1)

RECURSIVE Reversed(_)
Reversed(s) == IF s = << >> THEN << >>
               ELSE Append(Reversed(Tail(s)), Head(s))

\* what the last SDK call raised: NoExc when it returned normally.  end_exc
\* is the exception that left an end() call made by the operation.
NoExc == [op |-> "None", exc |-> None, end_exc |-> None]

Outcome(op, exc, end_exc) ==
  IF exc = None /\ end_exc = None THEN NoExc
  ELSE [op |-> op, exc |-> exc, end_exc |-> end_exc]

\* ------------------------------------------------- contextvars.ContextVar
\* default=None for every ContextVar of the SDK
EmptyContext == [current_span |-> NoSpan, agent_id |-> None,
                 session_id |-> None, workflow_id |-> None, user_id |-> None]

\* ContextVar.set(value) in unit u: the Token remembers the old value and
\* the Context it was created in.
Token(c, u, var, id) ==
  [var |-> var, ctx |-> u, old_value |-> c[u][var], id |-> id]


\* ContextVar.reset(token) in unit u: RuntimeError for a token used before,
\* ValueError for a token created in another Context, else restore.
ResetError(tok, u, used) ==
  IF tok.id \in used THEN "RuntimeError"
  ELSE IF tok.ctx # u THEN "ValueError"
  ELSE None

\* a module-level global in place of the ContextVar: one value for all units
ContextVar_set_global(c, u, var, value) ==
  [w \in DOMAIN c |-> [c[w] EXCEPT ![var] = value]]

ContextVar_set(c, u, var, value) == [c EXCEPT ![u][var] = value]

\* a reset that restores nothing
ContextVar_reset_noop(c, u, tok) == c

ContextVar_reset(c, u, tok) == [c EXCEPT ![u][tok.var] = tok.old_value]

get_current_span(u) == cv[u].current_span

\* history: which unit executed the set() that produced the value of each
\* ContextVar seen in a unit (0: the default)
NoSetter == [current_span |-> 0, agent_id |-> 0, session_id |-> 0,
             workflow_id |-> 0, user_id |-> 0]


\* ------------------------------------------------------------- privacy.py
\* A key-path is the sequence of its dot-separated segments; a segment is a
\* dict key followed by the list indices applied to it ("items[0]").  Keys
\* hold no "." and no "[".
Seg(k) == [k |-> k, idx |-> << >>]

\* f"{path}.{k}" if path else k
KeyPath(path, k) == Append(path, Seg(k))

\* f"{path}[{i}]"
ItemPath(path, i) ==
  IF path = << >> THEN <<[k |-> "", idx |-> <<i>>]>>
  ELSE [path EXCEPT ![Len(path)].idx = Append(@, i)]

\* str.lower() on the keys the model uses
Lower(k) == IF k = "Password" THEN "password" ELSE k

LowerPath(path) == [i \in DOMAIN path |-> [path[i] EXCEPT !.k = Lower(@)]]

\* path.endswith("." + scrub_path), or equality
IsSuffix(sp, path) ==
  /\ Len(sp) <= Len(path)
  /\ SubSeq(path, Len(path) - Len(sp) + 1, Len(path)) = sp

\* PATTERNS["email"], the built-in pattern the model strings can match
MatchesEmail(str) == str = "a@b.co"

\* re.compile(pattern): "(" is a malformed expression, "secret-\w+" is not
compile(pattern) == IF pattern = "(" THEN "re.error" ELSE None

\* pattern.search on the strings of the model; a match covers the string
Matches(pattern, str) ==
  \/ pattern = "email" /\ MatchesEmail(str)
  \/ pattern = "secret-\\w+" /\ str = "secret-x"

_should_scrub_path(cfg, path) ==
  \E i \in DOMAIN cfg.scrub_paths :
     /\ cfg.scrub_paths[i] # << >>
     /\ IsSuffix(LowerPath(cfg.scrub_paths[i]), LowerPath(path))

\* _hash_value(m.group(0)): "[HASH:" + 8 hex digits + "]"
_hash_value(str) == IF str = "a@b.co" THEN "[HASH:1]" ELSE "[HASH:2]"

\* custom_redactor(result): the redactor of the model masks every string
custom_redactor(name, str) == IF name = "mask" THEN "###" ELSE str

\* `for pattern in redact_patterns: result = pattern.sub(..., result)`
RECURSIVE Substitute(_, _, _)
Substitute(cfg, patterns, str) ==
  IF patterns = << >> THEN str
  ELSE Substitute(cfg, Tail(patterns),
                  IF Matches(Head(patterns), str)
                    THEN IF cfg.hash_pii THEN _hash_value(str)
                         ELSE cfg.redacted_text
                  ELSE str)

\* a _redact_string that replaces the string whether or not a pattern matches
_redact_string_all(cfg, str) == IF str = "" THEN str ELSE cfg.redacted_text

\* _redact_string: the custom redactor first, then every pattern in turn
_redact_string(cfg, str) ==
  IF str = "" THEN str
  ELSE Substitute(cfg, cfg.redact_patterns,
                  IF cfg.custom_redactor # None
                    THEN custom_redactor(cfg.custom_redactor, str)
                  ELSE str)

\* _redact_value: the scrub path is looked up first; dicts and lists are
\* rebuilt item by item, strings are redacted, anything else (numbers, None,
\* tuples) is returned as it is
RECURSIVE _redact_value(_, _, _)
_redact_value(cfg, value, path) ==
  IF path # << >> /\ _should_scrub_path(cfg, path)
    THEN [t |-> "str", v |-> cfg.redacted_text]
  ELSE IF value.t = "dict"
    THEN [value EXCEPT !.items =
            [k \in DOMAIN value.items |->
               _redact_value(cfg, value.items[k], KeyPath(path, k))]]
  ELSE IF value.t = "list"
    THEN [value EXCEPT !.items =
            [i \in DOMAIN value.items |->
               _redact_value(cfg, value.items[i], ItemPath(path, i - 1))]]
  ELSE IF value.t \in {"str", "trunc"}
    THEN [value EXCEPT !.v = _redact_string(cfg, value.v)]
  ELSE value

redact_payload(cfg, payload) ==
  IF ~cfg.enabled THEN payload ELSE _redact_value(cfg, payload, << >>)

PrivacyConfig(enabled, redact_patterns, scrub_paths, hash_pii, redactor) ==
  [enabled |-> enabled, redact_patterns |-> redact_patterns,
   scrub_paths |-> scrub_paths, hash_pii |-> hash_pii,
   custom_redactor |-> redactor, redacted_text |-> REDACTED]

\* ---------------------------------------------------- decorators.py: span
Kinds == {"chain", "tool"}

\* span_type_map.get(self.kind, SpanType.ROOT)
span_type_map(kind) ==
  IF kind \in {"llm", "tool", "retriever", "embedding"} THEN "TOOL_CALL"
  ELSE "ROOT"

\* ActiveSpan.__init__; _generate_id() yields a fresh id, modelled by the
\* index of the new object.
\* ActiveSpan.__init__ generating a trace id for every span
ActiveSpan_fresh(id, kind, parent_id, trace_id) ==
  [kind |-> kind, span_id |-> id, parent_id |-> parent_id,
   trace_id |-> id,
   start_time |-> now, end_time |-> NoTime,
   attributes |-> EmptyDict, events |-> << >>,
   input_data |-> NonePayload, output_data |-> NonePayload,
   error |-> None, token_usage |-> EmptyDict,
   _ended |-> FALSE, _token |-> NoToken]

ActiveSpan(id, kind, parent_id, trace_id) ==
  [kind |-> kind, span_id |-> id, parent_id |-> parent_id,
   trace_id |-> IF trace_id # NoSpan THEN trace_id ELSE id,
   start_time |-> now, end_time |-> NoTime,
   attributes |-> EmptyDict, events |-> << >>,
   input_data |-> NonePayload, output_data |-> NonePayload,
   error |-> None, token_usage |-> EmptyDict,
   _ended |-> FALSE, _token |-> NoToken]

set_input(sp, data) == [sp EXCEPT !.input_data = data]

set_output(sp, data) == [sp EXCEPT !.output_data = data]

set_attribute(sp, key, value) ==
  [sp EXCEPT !.attributes = Put(sp.attributes, key, value)]

set_attributes(sp, attributes) ==
  [sp EXCEPT !.attributes = Update(sp.attributes, attributes)]

add_event(sp, name) ==
  [sp EXCEPT !.events = Append(sp.events, [name |-> name, timestamp |-> now])]

set_error(sp, error) ==
  [sp EXCEPT !.error = error,
             !.attributes = Update(sp.attributes,
                [x \in {"error.type", "error.message", "error.stack"} |->
                   IF x = "error.type" THEN error
                   ELSE IF x = "error.message" THEN "boom"
                   ELSE "traceback"])]

NoCount == -1      \* an omitted (None) token count

UsageKey(y) == IF y = "prompt" THEN "gen_ai.usage.prompt_tokens"
               ELSE IF y = "completion" THEN "gen_ai.usage.completion_tokens"
               ELSE "gen_ai.usage.total_tokens"

set_token_usage(sp, prompt_tokens, completion_tokens, total_tokens) ==
  LET given == [x \in {y \in {"prompt", "completion", "total"} :
                          \/ y = "prompt" /\ prompt_tokens # NoCount
                          \/ y = "completion" /\ completion_tokens # NoCount
                          \/ y = "total" /\ total_tokens # NoCount} |->
                  IF x = "prompt" THEN prompt_tokens
                  ELSE IF x = "completion" THEN completion_tokens
                  ELSE total_tokens]
      attrs == [x \in {UsageKey(y) : y \in DOMAIN given} |->
                  IF x = "gen_ai.usage.prompt_tokens" THEN prompt_tokens
                  ELSE IF x = "gen_ai.usage.completion_tokens"
                    THEN completion_tokens
                  ELSE total_tokens]
  IN [sp EXCEPT !.token_usage = Update(sp.token_usage, given),
                !.attributes = Update(sp.attributes, attrs)]

set_model(sp, model, provider) ==
  LET a1 == Put(sp.attributes, "gen_ai.request.model", model)
  IN [sp EXCEPT !.attributes =
        IF provider # None THEN Put(a1, "gen_ai.system", provider) ELSE a1]

\* _safe_serialize: data itself, or the truncation record when its JSON
\* form is longer than max_size
max_size == 10000
\* len(json.dumps(data)): only the string "long" exceeds max_size
RECURSIVE HasLong(_)
HasLong(data) ==
  IF data.t \in {"dict", "list", "tuple"}
    THEN \E k \in DOMAIN data.items : HasLong(data.items[k])
  ELSE data.t \in {"str", "trunc"} /\ data.v = "long"

JsonLen(data) == IF HasLong(data) THEN 20000 ELSE 8
_safe_serialize(data) ==
  IF JsonLen(data) > max_size THEN [t |-> "trunc", v |-> "long"] ELSE data

\* The payload dict built by _send.  payload["attributes"] and
\* payload["events"] are the span's own dict and list objects, not copies:
\* the model stores a reference to the owning span.
Ref(s) == [ref |-> s]

\* the payload built without reading the capture flags of the config
BuildPayload_all(s, sp, config) ==
  LET keys == {k \in {"input", "output", "attributes", "events", "error"} :
                 \/ k = "input" /\ sp.input_data # NonePayload
                 \/ k = "output" /\ sp.output_data # NonePayload
                 \/ k = "attributes" /\ sp.attributes # EmptyDict
                 \/ k = "events" /\ sp.events # << >>
                 \/ k = "error" /\ sp.error # None}
  IN [k \in keys |->
        IF k = "input" THEN _safe_serialize(sp.input_data)
        ELSE IF k = "output" THEN _safe_serialize(sp.output_data)
        ELSE IF k = "attributes" THEN Ref(s)
        ELSE IF k = "events" THEN Ref(s)
        ELSE [type |-> sp.error, message |-> "boom"]]

BuildPayload(s, sp, config) ==
  LET keys == {k \in {"input", "output", "attributes", "events", "error"} :
                 \/ k = "input" /\ sp.input_data # NonePayload
                                /\ config.capture_input
                 \/ k = "output" /\ sp.output_data # NonePayload
                                 /\ config.capture_output
                 \/ k = "attributes" /\ sp.attributes # EmptyDict
                 \/ k = "events" /\ sp.events # << >>
                 \/ k = "error" /\ sp.error # None}
  IN [k \in keys |->
        IF k = "input" THEN _safe_serialize(sp.input_data)
        ELSE IF k = "output" THEN _safe_serialize(sp.output_data)
        ELSE IF k = "attributes" THEN Ref(s)
        ELSE IF k = "events" THEN Ref(s)
        ELSE [type |-> sp.error, message |-> "boom"]]

\* models.AgentFlowEdge(...) as _send constructs it: the keyword arguments
\* are stored as given.  src is not a field of the edge: it records which
\* span object the edge was built from.
AgentFlowEdge(s, sp, config) ==
  [src |-> s,
   tenant_id |-> config.tenant_id,
   session_id |-> sp.trace_id,
   span_type |-> span_type_map(sp.kind),
   timestamp_us |-> sp.start_time,
   duration_us |-> IF sp.end_time # NoTime THEN sp.end_time - sp.start_time
                   ELSE 0,
   token_count |-> IF "total" \in DOMAIN sp.token_usage
                   THEN sp.token_usage["total"] ELSE 0,
   payload |-> BuildPayload(s, sp, config)]

\* batching.BatchingAgentreplayClient.insert: append at the tail; when the
\* buffer is full drop the oldest entry and count it.
insert(client, edge) ==
  IF Len(client._buffer) >= client.max_buffer_size
    THEN [client EXCEPT !._buffer = Append(Tail(client._buffer), edge),
                        !._dropped_count = client._dropped_count + 1]
  ELSE [client EXCEPT !._buffer = Append(client._buffer, edge)]

\* _send(): nothing is sent unless the SDK is initialized and enabled.
\* fault: something inside the try block raises (edge construction, insert).
SendReaches(fault) == _initialized /\ _config.enabled /\ ~fault

\* _send without its try / except
SendRaises_propagate(fault) == IF fault THEN "Exception" ELSE None

\* The exception that leaves _send: `except Exception` catches and logs it.
SendRaises(fault) == None

_send(s, sp, fault) ==
  /\ IF SendReaches(fault)
       THEN LET edge == AgentFlowEdge(s, sp, _config)
            IN /\ _batching_client' = insert(_batching_client, edge)
               /\ insertLog' = Append(insertLog,
                    [edge |-> edge, raw_input |-> sp.input_data,
                     raw_output |-> sp.output_data,
                     privacy |-> _privacy_config,
                     attributes |-> sp.attributes, events |-> sp.events])
       ELSE UNCHANGED <<_batching_client, insertLog>>

\* end() without the _ended check
end_noflag(s, sp, fault) ==
  LET sp2 == [sp EXCEPT !._ended = TRUE, !.end_time = now]
  IN /\ spans' = [spans EXCEPT ![s] = sp2]
     /\ _send(s, sp2, fault)

\* ActiveSpan.end() applied to the span object sp (the state of span s after
\* whatever the caller did just before): the _ended flag makes every call
\* after the first return at once.
end(s, sp, fault) ==
  IF sp._ended
    THEN /\ spans' = [spans EXCEPT ![s] = sp]
         /\ UNCHANGED <<_batching_client, insertLog>>
  ELSE LET sp2 == [sp EXCEPT !._ended = TRUE, !.end_time = now]
       IN /\ spans' = [spans EXCEPT ![s] = sp2]
          /\ _send(s, sp2, fault)

\* ------------------------------------------------------------------ sdk.py
SDKConfig(api_key, enabled, strict, max_queue_size, capture_input, capture_output) ==
  [set |-> TRUE, api_key |-> api_key, tenant_id |-> 1, enabled |-> enabled,
   strict |-> strict, max_queue_size |-> max_queue_size,
   capture_input |-> capture_input, capture_output |-> capture_output]

\* batching.BatchingAgentreplayClient(client, batch_size, flush_interval,
\* max_buffer_size)
BatchingAgentreplayClient(max_buffer_size) ==
  [live |-> TRUE, _buffer |-> << >>, _dropped_count |-> 0,
   max_buffer_size |-> max_buffer_size]

\* client.AgentreplayClient(url, tenant_id, ...)
AgentreplayClient == [live |-> TRUE]

\* history after the global _batching_client is overwritten: a client
\* still referenced there is dropped with no close()
Dropped(h) ==
  [h EXCEPT !.leaked = IF _batching_client.live THEN @ + 1 ELSE @]

\* init() called in the main thread: under _lock; a second call while
\* initialized returns the existing config; in strict mode a missing API
\* key raises after _config has been assigned; with enabled set it creates
\* both clients and registers the atexit hook and the SIGTERM / SIGINT
\* handlers.
init(api_key, enabled, strict, max_queue_size, capture_input, capture_output) ==
  LET config == SDKConfig(api_key, enabled, strict, max_queue_size,
                          capture_input, capture_output)
  IN /\ _lock = 0
     /\ IF _initialized
          THEN /\ UNCHANGED <<_config, _client, _batching_client, hooks,
                              _initialized, hist>>
               /\ raised' = NoExc
        ELSE IF config.strict /\ config.api_key = None
          THEN /\ _config' = config
               /\ UNCHANGED <<_client, _batching_client, hooks, _initialized,
                              hist>>
               /\ raised' = Outcome("init", "ValueError", None)
        ELSE IF ~config.enabled
          THEN /\ _config' = config
               /\ UNCHANGED <<_client, _batching_client, hooks, hist>>
               /\ _initialized' = TRUE
               /\ raised' = NoExc
        ELSE /\ _batching_client.live => hist.leaked < MaxLeaked
             /\ _config' = config
             /\ _client' = AgentreplayClient
             /\ _batching_client' =
                  BatchingAgentreplayClient(config.max_queue_size)
             /\ hist' = Dropped(hist)
             /\ hooks' = [atexit |-> TRUE, signal |-> TRUE]
             /\ _initialized' = TRUE
             /\ raised' = NoExc
     /\ UNCHANGED <<ctxOthers, extOthers, _lock, pc, now, spans, cv, usedTokens,
                    nextToken, units, withStack, _privacy_config, handles,
                    insertLog>>

\* init() called in another thread: signal.signal() raises ValueError
\* outside the main thread, after the clients are created and the atexit
\* hook is registered and before _initialized is set
init_off_main(api_key, enabled, strict, max_queue_size, capture_input, capture_output) ==
  LET config == SDKConfig(api_key, enabled, strict, max_queue_size,
                          capture_input, capture_output)
  IN IF _initialized \/ (config.strict /\ config.api_key = None)
          \/ ~config.enabled
       THEN init(api_key, enabled, strict, max_queue_size, capture_input,
                 capture_output)
     ELSE /\ _lock = 0
          /\ _batching_client.live => hist.leaked < MaxLeaked
          /\ _config' = config
          /\ _client' = AgentreplayClient
          /\ _batching_client' =
               BatchingAgentreplayClient(config.max_queue_size)
          /\ hist' = Dropped(hist)
          /\ hooks' = [hooks EXCEPT !.atexit = TRUE]
          /\ raised' = Outcome("init", "ValueError", None)
          /\ UNCHANGED <<_initialized, ctxOthers, extOthers, _lock, pc, now, spans, cv,
                         usedTokens, nextToken, units, withStack,
                         _privacy_config, handles, insertLog>>

\* the locked block of shutdown(): close() on both clients, then forget them
close_clients ==
  /\ _batching_client' = NoClient
  /\ _client' = NoClient
  /\ _initialized' = FALSE

\* shutdown() run from its first statement to its last with no other thread
\* in between; keeps _config
shutdown ==
  /\ IF ~_initialized
       THEN UNCHANGED <<_client, _batching_client, _initialized>>
     ELSE _lock = 0 /\ close_clients
  /\ raised' = NoExc
  /\ UNCHANGED <<ctxOthers, extOthers, hooks, _lock, pc, now, spans, cv, usedTokens,
                 nextToken, units, withStack, _config, _privacy_config,
                 handles, insertLog, hist>>

\* get_stats(): prints _initialized, _config.enabled and the queue size
\* get_stats reporting the queue length as the number of dropped spans
get_stats_queue ==
  [initialized |-> _initialized,
   enabled |-> IF _config.set THEN _config.enabled ELSE FALSE,
   queue_size |-> IF _batching_client.live
                    THEN Len(_batching_client._buffer) ELSE None,
   dropped_count |-> IF _batching_client.live
                       THEN Len(_batching_client._buffer) ELSE None]

get_stats ==
  [initialized |-> _initialized,
   enabled |-> IF _config.set THEN _config.enabled ELSE FALSE,
   queue_size |-> IF _batching_client.live
                    THEN Len(_batching_client._buffer) ELSE None,
   dropped_count |-> IF _batching_client.live
                       THEN _batching_client._dropped_count ELSE None]

\* the built-in PATTERNS; of these only "email" matches a string of the model
PATTERNS == <<"email">>

\* the first re.compile that raises, in list order
CompileError(redact_patterns) ==
  IF \E i \in DOMAIN redact_patterns : compile(redact_patterns[i]) # None
    THEN "re.error" ELSE None

\* configure_privacy with the configuration assigned before the patterns
\* are compiled
configure_privacy_eager(enabled, redact_patterns, scrub_paths, hash_pii, redactor, use_builtin_patterns) ==
  /\ _privacy_config' =
       PrivacyConfig(enabled,
                     (IF use_builtin_patterns THEN PATTERNS ELSE << >>)
                       \o SelectSeq(redact_patterns,
                                    LAMBDA x : compile(x) = None),
                     scrub_paths, hash_pii, redactor)
  /\ raised' = Outcome("configure_privacy", CompileError(redact_patterns), None)

\* configure_privacy(enabled=, redact_patterns=, scrub_paths=, hash_pii=,
\* custom_redactor=, use_builtin_patterns=): the patterns are compiled into a
\* local list, then the new PrivacyConfig is assigned
configure_privacy(enabled, redact_patterns, scrub_paths, hash_pii, redactor, use_builtin_patterns) ==
  /\ IF CompileError(redact_patterns) # None
       THEN UNCHANGED _privacy_config
     ELSE _privacy_config' =
            PrivacyConfig(enabled,
                          (IF use_builtin_patterns THEN PATTERNS ELSE << >>)
                            \o redact_patterns,
                          scrub_paths, hash_pii, redactor)
  /\ raised' = Outcome("configure_privacy", CompileError(redact_patterns), None)

\* a caller invokes configure_privacy
ConfigurePrivacy(enabled, redact_patterns, scrub_paths, hash_pii, redactor, use_builtin_patterns) ==
  /\ configure_privacy(enabled, redact_patterns, scrub_paths, hash_pii,
                       redactor, use_builtin_patterns)
  /\ UNCHANGED <<others, now, spans, cv, usedTokens, nextToken, units,
                 withStack, _initialized, _config, _batching_client, handles,
                 insertLog, hist>>

\* add_pattern(pattern): compile, then append to the active configuration
add_pattern(pattern) ==
  /\ IF compile(pattern) # None
       THEN UNCHANGED _privacy_config
     ELSE _privacy_config' = [_privacy_config EXCEPT
                                !.redact_patterns = Append(@, pattern)]
  /\ raised' = Outcome("add_pattern", compile(pattern), None)

\* a caller invokes add_pattern
AddPattern(pattern) ==
  /\ Len(_privacy_config.redact_patterns) < MaxPatterns
  /\ add_pattern(pattern)
  /\ UNCHANGED <<others, now, spans, cv, usedTokens, nextToken, units,
                 withStack, _initialized, _config, _batching_client, handles,
                 insertLog, hist>>

\* whether _redact_value reaches a non-empty string of the payload
RECURSIVE VisitsString(_, _, _)
VisitsString(cfg, value, path) ==
  IF path # << >> /\ _should_scrub_path(cfg, path) THEN FALSE
  ELSE IF value.t = "dict"
    THEN \E k \in DOMAIN value.items :
            VisitsString(cfg, value.items[k], KeyPath(path, k))
  ELSE IF value.t = "list"
    THEN \E i \in DOMAIN value.items :
            VisitsString(cfg, value.items[i], ItemPath(path, i - 1))
  ELSE value.t \in {"str", "trunc"} /\ value.v # ""

\* what redact_payload raises: calling .sub on a list entry that is not a
\* compiled pattern
RedactError(cfg, payload) ==
  IF /\ cfg.enabled
     /\ VisitsString(cfg, payload, << >>)
     /\ CompileError(cfg.redact_patterns) # None
    THEN "AttributeError" ELSE None

\* a caller invokes redact_payload(payload); `payload` is the caller's object
\* after the call: the code assigns to no part of it
Redact(payload) ==
  /\ redactCall' =
       [op |-> "redact_payload", arg |-> payload, payload |-> payload,
        config |-> _privacy_config,
        result |-> IF RedactError(_privacy_config, payload) # None
                   THEN NonePayload
                   ELSE redact_payload(_privacy_config, payload)]
  /\ raised' = Outcome("redact_payload",
                       RedactError(_privacy_config, payload), None)
  /\ UNCHANGED <<now, spans, cv, usedTokens, nextToken, units, withStack,
                 _initialized, _config, _batching_client, _privacy_config,
                 handles, insertLog, hist, _global_context, wrapperCall,
                 sdkOthers, extOthers>>

\* ------------------------------------------------------------ environment
\* time passes
Tick ==
  /\ now < MaxClock
  /\ now' = now + 1
  /\ UNCHANGED <<others, spans, cv, usedTokens, nextToken, units, withStack,
                 _initialized, _config, _batching_client, _privacy_config,
                 handles, insertLog, raised, hist>>

Alive(u) == units[u] # "unborn"

\* asyncio.create_task in unit u: the task runs in a copy of u's Context
SpawnTask(u, v) ==
  /\ Alive(u) /\ ~Alive(v)
  /\ units' = [units EXCEPT ![v] = "task"]
  /\ cv' = [cv EXCEPT ![v] = cv[u]]
  /\ hist' = [hist EXCEPT !.path[v] = hist.path[u],
                          !.inherited[v] = cv[u].current_span,
                          !.origin[v] = hist.origin[u] \cup {u},
                          !.by[v] = hist.by[u],
                          !.atSpawn[v] = cv[u]]
  /\ UNCHANGED <<others, now, spans, usedTokens, nextToken, withStack, _initialized,
                 _config, _batching_client, _privacy_config, handles,
                 insertLog, raised>>

\* threading.Thread(...).start() in unit u: the thread has an empty Context
SpawnThread(u, v) ==
  /\ Alive(u) /\ ~Alive(v)
  /\ units' = [units EXCEPT ![v] = "thread"]
  /\ cv' = [cv EXCEPT ![v] = EmptyContext]
  /\ hist' = [hist EXCEPT !.origin[v] = hist.origin[u] \cup {u},
                          !.by[v] = NoSetter,
                          !.atSpawn[v] = cv[u]]
  /\ UNCHANGED <<others, now, spans, usedTokens, nextToken, withStack, _initialized,
                 _config, _batching_client, _privacy_config, handles,
                 insertLog, raised>>

\* ----------------------------------------------- history used by properties
SpanEntries(stk) == SelectSeq(stk, LAMBDA e : e.kind # "ctx")

\* innermost span whose `with` block is open in unit u, else the span that
\* was current when the unit was spawned
Innermost(u) ==
  IF SpanEntries(withStack[u]) = << >> THEN hist.inherited[u]
  ELSE Last(SpanEntries(withStack[u])).obj

OpenOnPath(u) == SelectSeq(hist.path[u], LAMBDA s : ~spans[s]._ended)

\* most recently started span on u's call path that is not yet closed
MostRecentOpen(u) ==
  IF OpenOnPath(u) = << >> THEN NoSpan ELSE Last(OpenOnPath(u))

OnAnyStack(s) ==
  \E u \in Units : \E i \in DOMAIN withStack[u] :
     withStack[u][i].kind # "ctx" /\ withStack[u][i].obj = s

StackSpans(u) ==
  {withStack[u][i].obj : i \in {j \in DOMAIN withStack[u] :
                                   withStack[u][j].kind # "ctx"}}

Created(u, id) ==
  [hist EXCEPT !.path[u] = Append(hist.path[u], id),
               !.expect = Append(hist.expect,
                   [unit |-> u, mrs |-> MostRecentOpen(u),
                    innermost |-> Innermost(u),
                    clean |-> ~hist.reentered]),
               !.closedBy = Append(hist.closedBy, "open"),
               !.enters = Append(hist.enters, 0),
               !.ends = Append(hist.ends, 0),
               !.under = Append(hist.under, {})]

Entered(h, u, s) ==
  [h EXCEPT !.nEnter = h.nEnter + 1,
            !.enters[s] = h.enters[s] + 1,
            !.under[s] = StackSpans(u),
            !.reentered = h.reentered \/ OnAnyStack(s)]

\* an end() call on span s (explicit, or made by __exit__); calls beyond the
\* second are not counted
Closed(h, s, sp, how) ==
  [h EXCEPT !.closedBy[s] = IF sp._ended THEN @ ELSE how,
            !.ends[s] = IF @ < 2 THEN @ + 1 ELSE @]

\* ------------------------------------------- decorators.py: span creation
\* trace(name, kind=, input=, metadata=): the parent is the value of the
\* _current_span ContextVar; the new span is not made current.
trace(u, kind, input, metadata) ==
  /\ Alive(u)
  /\ Len(spans) < MaxSpans
  /\ LET id == Len(spans) + 1
         parent == get_current_span(u)
         sp0 == ActiveSpan(id, kind, parent,
                           IF parent # NoSpan THEN spans[parent].trace_id
                           ELSE NoSpan)
         sp1 == IF input # NonePayload THEN set_input(sp0, input) ELSE sp0
         sp2 == IF metadata # EmptyDict THEN set_attributes(sp1, metadata)
                ELSE sp1
     IN /\ spans' = Append(spans, sp2)
        /\ hist' = Created(u, id)
  /\ UNCHANGED <<others, now, cv, usedTokens, nextToken, units, withStack,
                 _initialized, _config, _batching_client, _privacy_config,
                 handles, insertLog, raised>>

\* start_span(...) returns trace(...)
start_span(u, kind, input, metadata) == trace(u, kind, input, metadata)

\* ActiveSpan.__enter__ at the head of a `with span:` block in unit u
Enter(u, s) ==
  /\ Alive(u)
  /\ s \in DOMAIN spans
  /\ Len(withStack[u]) < MaxDepth
  /\ hist.nEnter < MaxEnters
  /\ LET tok == Token(cv, u, "current_span", nextToken)
     IN /\ cv' = ContextVar_set(cv, u, "current_span", s)
        /\ spans' = [spans EXCEPT ![s]._token = tok]
        /\ nextToken' = nextToken + 1
        /\ withStack' = [withStack EXCEPT ![u] =
                           Append(@, [kind |-> "span", obj |-> s,
                                      capture_output |-> FALSE])]
        /\ hist' = Entered(hist, u, s)
  /\ UNCHANGED <<others, now, usedTokens, units, _initialized, _config,
                 _batching_client, _privacy_config, handles, insertLog,
                 raised>>

\* ActiveSpan.__exit__(exc_type, exc_val, exc_tb) applied to span object sp:
\* set_error when the block raised, end(), then _current_span.reset(token)
\* which raises for a token that was used before or made in another Context.
__exit__(u, s, sp, exc_val, fault) ==
  LET sp1 == IF exc_val # None THEN set_error(sp, exc_val) ELSE sp
      err == ResetError(sp1._token, u, usedTokens)
  IN /\ end(s, sp1, fault)
     /\ hist' = Closed(hist, s, sp1, "exit")
     /\ IF SendRaises(fault) = None /\ err = None
          THEN /\ cv' = ContextVar_reset(cv, u, sp1._token)
               /\ usedTokens' = usedTokens \cup {sp1._token.id}
          ELSE UNCHANGED <<cv, usedTokens>>
     /\ raised' = Outcome("__exit__",
                           IF SendRaises(fault) # None THEN SendRaises(fault)
                           ELSE err,
                           SendRaises(fault))

\* the end of a `with span:` block in unit u; exc_val is the exception the
\* block raised, if any
Exit(u, exc_val, fault) ==
  /\ withStack[u] # << >>
  /\ Last(withStack[u]).kind = "span"
  /\ LET s == Last(withStack[u]).obj
     IN __exit__(u, s, spans[s], exc_val, fault)
  /\ withStack' = [withStack EXCEPT ![u] = Front(@)]
  /\ UNCHANGED <<others, now, nextToken, units, _initialized, _config,
                 _privacy_config, handles>>

\* an explicit span.end()
End(s, fault) ==
  /\ s \in DOMAIN spans
  /\ end(s, spans[s], fault)
  /\ hist' = Closed(hist, s, spans[s], "end")
  /\ raised' = Outcome("end", SendRaises(fault), SendRaises(fault))
  /\ UNCHANGED <<others, now, cv, usedTokens, nextToken, units, withStack,
                 _initialized, _config, _privacy_config, handles>>

\* traceable(...): entry of sync_wrapper / async_wrapper in unit u.  The
\* wrapper reads the parent, builds the span, records metadata and the
\* captured arguments, and enters `with span:`.
TraceableCall(u, kind, capture_input, capture_output, metadata, args) ==
  /\ Alive(u)
  /\ Len(spans) < MaxSpans
  /\ Len(withStack[u]) < MaxDepth
  /\ hist.nEnter < MaxEnters
  /\ LET id == Len(spans) + 1
         parent == get_current_span(u)
         sp0 == ActiveSpan(id, kind, parent,
                           IF parent # NoSpan THEN spans[parent].trace_id
                           ELSE NoSpan)
         sp1 == IF metadata # EmptyDict THEN set_attributes(sp0, metadata)
                ELSE sp0
         sp2 == IF capture_input THEN set_input(sp1, args) ELSE sp1
         tok == Token(cv, u, "current_span", nextToken)
     IN /\ spans' = Append(spans, [sp2 EXCEPT !._token = tok])
        /\ cv' = ContextVar_set(cv, u, "current_span", id)
        /\ nextToken' = nextToken + 1
        /\ withStack' = [withStack EXCEPT ![u] =
                           Append(@, [kind |-> "traceable", obj |-> id,
                                      capture_output |-> capture_output])]
        /\ hist' = LET h == Created(u, id)
                   IN [h EXCEPT !.nEnter = h.nEnter + 1, !.enters[id] = 1,
                                !.under[id] = StackSpans(u)]
  /\ UNCHANGED <<others, now, usedTokens, units, _initialized, _config,
                 _batching_client, _privacy_config, handles, insertLog,
                 raised>>

\* the traced function returns result: set_output when capture_output, then
\* the `with span:` block exits normally
TraceableReturn(u, result, fault) ==
  /\ withStack[u] # << >>
  /\ Last(withStack[u]).kind = "traceable"
  /\ LET s == Last(withStack[u]).obj
         sp == IF Last(withStack[u]).capture_output
               THEN set_output(spans[s], result) ELSE spans[s]
     IN __exit__(u, s, sp, None, fault)
  /\ withStack' = [withStack EXCEPT ![u] = Front(@)]
  /\ UNCHANGED <<others, now, nextToken, units, _initialized, _config,
                 _privacy_config, handles>>

\* the traced function raises e: set_error(e), re-raise, and the
\* `with span:` block exits with exc_val = e
TraceableRaise(u, e, fault) ==
  /\ withStack[u] # << >>
  /\ Last(withStack[u]).kind = "traceable"
  /\ LET s == Last(withStack[u]).obj
     IN __exit__(u, s, set_error(spans[s], e), e, fault)
  /\ withStack' = [withStack EXCEPT ![u] = Front(@)]
  /\ UNCHANGED <<others, now, nextToken, units, _initialized, _config,
                 _privacy_config, handles>>

\* ------------------------------------------ decorators.py: span mutators
\* a caller invokes one mutator on span s; f(sp) is the mutator's effect
Mutate(s, sp) ==
  /\ s \in DOMAIN spans
  /\ hist.nSet < MaxSetCalls
  /\ spans' = [spans EXCEPT ![s] = sp]
  /\ hist' = [hist EXCEPT !.nSet = hist.nSet + 1]
  /\ UNCHANGED <<others, now, cv, usedTokens, nextToken, units, withStack,
                 _initialized, _config, _batching_client, _privacy_config,
                 handles, insertLog, raised>>

SetInput(s, data) == s \in DOMAIN spans /\ Mutate(s, set_input(spans[s], data))

SetOutput(s, data) ==
  s \in DOMAIN spans /\ Mutate(s, set_output(spans[s], data))

SetAttribute(s, key, value) ==
  s \in DOMAIN spans /\ Mutate(s, set_attribute(spans[s], key, value))

SetAttributes(s, attributes) ==
  s \in DOMAIN spans /\ Mutate(s, set_attributes(spans[s], attributes))

AddEvent(s, name) == s \in DOMAIN spans /\ Mutate(s, add_event(spans[s], name))

SetError(s, error) == s \in DOMAIN spans /\ Mutate(s, set_error(spans[s], error))

SetTokenUsage(s, p, c, t) ==
  s \in DOMAIN spans /\ Mutate(s, set_token_usage(spans[s], p, c, t))

SetModel(s, model, provider) ==
  s \in DOMAIN spans /\ Mutate(s, set_model(spans[s], model, provider))

\* -------------------------------------------------------------- context.py
CtxFields == {"agent_id", "session_id", "workflow_id", "user_id"}

get_current_agent_id(u) == cv[u].agent_id
get_current_session_id(u) == cv[u].session_id
get_current_workflow_id(u) == cv[u].workflow_id
get_current_user_id(u) == cv[u].user_id

\* `if self.session_id:` - None and the empty string are not set
Truthy(v) == v # None /\ v # ""

\* AgentContext.__init__
AgentContext(agent_id, session_id, workflow_id, user_id) ==
  [cls |-> "AgentContext",
   context |-> [agent_id |-> agent_id, session_id |-> session_id,
                workflow_id |-> workflow_id, user_id |-> user_id],
   tokens |-> << >>]

\* ContextScope.__init__(**context)
ContextScope(context) ==
  [cls |-> "ContextScope", context |-> context, tokens |-> << >>]

\* The ContextVar.set calls of __enter__, in program order: AgentContext
\* always sets agent_id and sets the others when truthy; ContextScope sets
\* the keys present in its dict, user_id first.
EnterSets(h) ==
  LET order == IF h.cls = "AgentContext"
               THEN <<"agent_id", "session_id", "workflow_id", "user_id">>
               ELSE <<"user_id", "session_id", "agent_id", "workflow_id">>
      isSet(f) == IF h.cls = "AgentContext"
                  THEN f = "agent_id" \/ Truthy(h.context[f])
                  ELSE f \in DOMAIN h.context
  IN SelectSeq(order, isSet)

\* value[f] is what field f is set to
RECURSIVE SetAll(_, _, _, _)
SetAll(c, u, fields, value) ==
  IF fields = << >> THEN c
  ELSE SetAll(ContextVar_set(c, u, Head(fields), value[Head(fields)]),
              u, Tail(fields), value)

\* the Token objects those set() calls return
EnterTokens(h, u) ==
  LET fs == EnterSets(h)
  IN [i \in 1..Len(fs) |->
        [var |-> fs[i], ctx |-> u, old_value |-> cv[u][fs[i]],
         id |-> nextToken + i - 1, old_by |-> hist.by[u][fs[i]]]]

\* `for token in reversed(self.tokens): token.var.reset(token)`: the first
\* reset that raises ends the loop.  Yields the Context values, the history
\* of setters, the used tokens and the exception.
RECURSIVE ResetAll(_, _, _, _, _)
ResetAll(c, by, used, u, toks) ==
  IF toks = << >> THEN [cv |-> c, by |-> by, used |-> used, exc |-> None]
  ELSE LET t == Head(toks)
           err == ResetError(t, u, used)
       IN IF err # None
            THEN [cv |-> c, by |-> by, used |-> used, exc |-> err]
          ELSE ResetAll(ContextVar_reset(c, u, t),
                        ContextVar_reset(by, u, [t EXCEPT !.old_value = t.old_by]),
                        used \cup {t.id}, u, Tail(toks))

\* a caller constructs a handle
NewHandle(h) ==
  /\ Len(handles) < MaxHandles
  /\ handles' = Append(handles, h)
  /\ UNCHANGED <<others, now, spans, cv, usedTokens, nextToken, units, withStack,
                 _initialized, _config, _batching_client, _privacy_config,
                 insertLog, raised, hist>>

NewAgentContext(agent_id, session_id, workflow_id, user_id) ==
  NewHandle(AgentContext(agent_id, session_id, workflow_id, user_id))

\* with_context(**context) returns ContextScope(**context)
with_context(context) == NewHandle(ContextScope(context))

\* AgentContext.__enter__ / ContextScope.__enter__ at the head of a
\* `with handle:` block in unit u: the tokens are appended to self.tokens
EnterCtx(u, h) ==
  /\ Alive(u)
  /\ h \in DOMAIN handles
  /\ Len(withStack[u]) < MaxDepth
  /\ hist.nEnter < MaxCtxEnters
  /\ LET fs == EnterSets(handles[h])
         toks == EnterTokens(handles[h], u)
         me == [f \in CtxFields |-> u]
     IN /\ cv' = SetAll(cv, u, fs, handles[h].context)
        /\ handles' = [handles EXCEPT ![h].tokens = @ \o toks]
        /\ nextToken' = nextToken + Len(fs)
        /\ hist' = [hist EXCEPT !.nEnter = @ + 1,
                                !.by = SetAll(hist.by, u, fs, me),
                                !.ctxUnits = @ \cup {u}]
  /\ withStack' = [withStack EXCEPT ![u] =
                     Append(@, [kind |-> "ctx", obj |-> h,
                                capture_output |-> FALSE])]
  /\ raised' = NoExc
  /\ UNCHANGED <<others, now, spans, usedTokens, units, _initialized, _config,
                 _batching_client, _privacy_config, insertLog>>

\* AgentContext.__exit__ / ContextScope.__exit__ at the end of the innermost
\* `with handle:` block of unit u
ExitCtx(u) ==
  /\ withStack[u] # << >>
  /\ Last(withStack[u]).kind = "ctx"
  /\ LET h == Last(withStack[u]).obj
         r == ResetAll(cv, hist.by, usedTokens, u, Reversed(handles[h].tokens))
     IN /\ cv' = r.cv
        /\ usedTokens' = r.used
        /\ hist' = [hist EXCEPT !.by = r.by]
        /\ raised' = Outcome("__exit__", r.exc, None)
  /\ withStack' = [withStack EXCEPT ![u] = Front(@)]
  /\ UNCHANGED <<others, now, spans, nextToken, units, _initialized, _config,
                 _batching_client, _privacy_config, handles, insertLog>>

\* set_context(user_id=, session_id=, agent_id=, workflow_id=) called in
\* unit u: every argument that is not None is stored in _global_context and
\* set in the ContextVar of the calling unit's Context (the Token is dropped).
SetContextFields(kw) ==
  SelectSeq(<<"user_id", "session_id", "agent_id", "workflow_id">>,
            LAMBDA f : kw[f] # None)

set_context(u, kw) ==
  /\ Alive(u)
  /\ LET fs == SetContextFields(kw)
         me == [f \in CtxFields |-> u]
     IN /\ _global_context' =
             Update(_global_context, [f \in {fs[i] : i \in DOMAIN fs} |-> kw[f]])
        /\ cv' = SetAll(cv, u, fs, kw)
        /\ hist' = [hist EXCEPT !.by = SetAll(hist.by, u, fs, me)]
  /\ raised' = NoExc
  /\ UNCHANGED <<now, spans, usedTokens, nextToken, units, withStack,
                 _initialized, _config, _batching_client, _privacy_config,
                 handles, insertLog, redactCall, wrapperCall, sdkOthers, extOthers>>

\* get_global_context() returns a copy of the dict
get_global_context == _global_context

\* clear_context(): _global_context = {}
clear_context ==
  /\ _global_context' = EmptyDict
  /\ raised' = NoExc
  /\ UNCHANGED <<now, spans, cv, usedTokens, nextToken, units, withStack,
                 _initialized, _config, _batching_client, _privacy_config,
                 handles, insertLog, hist, redactCall, wrapperCall, sdkOthers, extOthers>>

\* ------------------------------------------- sdk.py, statement by statement
\* The calls of sdk.py as the threads of a process run them: the unlocked
\* test at the head of shutdown() and flush() is one step, `with _lock:` is
\* one step, the locked block is one step.  pc[t] holds the calls in
\* progress in thread t, innermost last.
Frame(op, at) == [op |-> op, at |-> at]
Idle(t) == pc[t] = << >>
Top(t) == pc[t][Len(pc[t])]
Push(t, f) == [pc EXCEPT ![t] = Append(@, f)]
Pop(t) == [pc EXCEPT ![t] = SubSeq(@, 1, Len(@) - 1)]
SetTop(t, f) == [pc EXCEPT ![t][Len(pc[t])] = f]

\* thread t exists and the process has not exited
Running(t) == Alive(t) /\ ~hist.exited

ShutdownOps == {"shutdown", "_signal_handler", "_atexit_handler"}

\* what no sdk call touches
SdkUnchanged ==
  UNCHANGED <<ctxOthers, extOthers, now, spans, cv, usedTokens, nextToken, units,
              withStack, _privacy_config, handles, insertLog>>

\* init() called from thread t
InitCall(t, api_key, enabled, strict) ==
  /\ Running(t) /\ Idle(t)
  /\ IF t = 1 THEN init(api_key, enabled, strict, MaxQueue, TRUE, TRUE)
     ELSE init_off_main(api_key, enabled, strict, MaxQueue, TRUE, TRUE)

\* the head of shutdown(): `if not _initialized: return`, else on to
\* `with _lock:`.  op tells who called: the program or one of the handlers.
ShutdownCall(t, op) ==
  /\ IF ~_initialized
       THEN /\ pc' = pc
            /\ hist' = [hist EXCEPT !.exited = (op = "_atexit_handler")]
     ELSE /\ pc' = Push(t, Frame(op, "lock"))
          /\ hist' = hist
  /\ raised' = NoExc
  /\ UNCHANGED <<_initialized, _config, _batching_client, _client, hooks,
                 _lock>>
  /\ SdkUnchanged

\* shutdown() called from thread t
Shutdown(t) ==
  /\ Running(t) /\ Idle(t)
  /\ ShutdownCall(t, "shutdown")

\* _signal_handler: SIGTERM or SIGINT arrives; the handler runs in the main
\* thread on top of whatever the main thread is doing.
_signal_handler ==
  /\ Running(1) /\ hooks.signal
  /\ Len(pc[1]) < MaxFrames
  /\ ShutdownCall(1, "_signal_handler")

\* _atexit_handler: the main thread has finished and the interpreter exits
_atexit_handler ==
  /\ Running(1) /\ hooks.atexit
  /\ Idle(1)
  /\ ShutdownCall(1, "_atexit_handler")

\* reset(): shutdown() first, then `with _lock:` and the four assignments
Reset(t) ==
  /\ Running(t) /\ Idle(t)
  /\ pc' = [pc EXCEPT ![t] =
             IF _initialized
               THEN <<Frame("reset", "lock"), Frame("shutdown", "lock")>>
             ELSE <<Frame("reset", "lock")>>]
  /\ raised' = NoExc
  /\ UNCHANGED <<_initialized, _config, _batching_client, _client, hooks,
                 _lock, hist>>
  /\ SdkUnchanged

\* `with _lock:` in shutdown() and reset(): threading.Lock is not reentrant
with_lock(t) ==
  /\ Running(t) /\ ~Idle(t)
  /\ Top(t).at = "lock"
  /\ _lock = 0
  /\ _lock' = t
  /\ pc' = SetTop(t, Frame(Top(t).op, "locked"))
  /\ UNCHANGED <<_initialized, _config, _batching_client, _client, hooks,
                 raised, hist>>
  /\ SdkUnchanged

\* the locked block of shutdown(), the lock released at its end
ShutdownLocked(t) ==
  /\ Running(t) /\ ~Idle(t)
  /\ Top(t).op \in ShutdownOps /\ Top(t).at = "locked"
  /\ close_clients
  /\ _lock' = 0
  /\ pc' = Pop(t)
  /\ hist' = [hist EXCEPT !.exited = (Top(t).op = "_atexit_handler")]
  /\ raised' = NoExc
  /\ UNCHANGED <<_config, hooks>>
  /\ SdkUnchanged

\* the locked block of reset(): the globals are set to None; a batching
\* client still referenced there is dropped with no close()
ResetLocked(t) ==
  /\ Running(t) /\ ~Idle(t)
  /\ Top(t).op = "reset" /\ Top(t).at = "locked"
  /\ _batching_client.live => hist.leaked < MaxLeaked
  /\ _config' = NoConfig
  /\ _client' = NoClient
  /\ _batching_client' = NoClient
  /\ _initialized' = FALSE
  /\ _lock' = 0
  /\ pc' = Pop(t)
  /\ hist' = Dropped(hist)
  /\ raised' = NoExc
  /\ UNCHANGED hooks
  /\ SdkUnchanged

\* batching.BatchingAgentreplayClient.flush(): drains the buffer, returns
\* the number of entries sent
BatchingFlush(client) == [client EXCEPT !._buffer = << >>]

\* the head of flush(): return 0 unless initialized with a batching client
Flush(t) ==
  /\ Running(t) /\ Idle(t)
  /\ IF ~_initialized \/ ~_batching_client.live
       THEN /\ pc' = pc
            /\ hist' = [hist EXCEPT !.ret = 0]
     ELSE /\ pc' = Push(t, Frame("flush", "call"))
          /\ hist' = [hist EXCEPT !.ret = NoReturn]
  /\ raised' = NoExc
  /\ UNCHANGED <<_initialized, _config, _batching_client, _client, hooks,
                 _lock>>
  /\ SdkUnchanged

\* flush(): `count = _batching_client.flush()` reads the global again
FlushCount(t) ==
  /\ Running(t) /\ ~Idle(t)
  /\ Top(t).op = "flush"
  /\ IF _batching_client.live
       THEN /\ _batching_client' = BatchingFlush(_batching_client)
            /\ hist' = [hist EXCEPT !.ret = Len(_batching_client._buffer)]
            /\ raised' = NoExc
     ELSE /\ UNCHANGED <<_batching_client, hist>>
          /\ raised' = Outcome("flush", "AttributeError", None)
  /\ pc' = Pop(t)
  /\ UNCHANGED <<_initialized, _config, _client, hooks, _lock>>
  /\ SdkUnchanged

\* -------------------------------------------------------------- wrappers.py
\* wrap_openai, wrap_anthropic and wrap_method replace a method of the
\* client by a wrapper that builds a span, enters `with span:`, calls the
\* original method and reads the response.
Wrappers == {"wrap_openai", "wrap_anthropic", "wrap_method"}

\* a response of the underlying call, by what the wrapper reads of it.
\* content: "ok" a non-empty list of well-formed items, "absent" no such
\* attribute, "bad" an item without the attribute read (wrap_openai) or a
\* value that cannot be indexed (wrap_anthropic); usage: "ok", "none" the
\* attribute is None, "bad" an object without the counters.
Responses == [content : {"ok", "absent", "bad"}, usage : {"ok", "none", "bad"}]

Returned(v) == [kind |-> "returned", value |-> v]
Raised(e) == [kind |-> "raised", value |-> e]

\* the exception raised by the wrapper's reads of the response r
ExtractionError(w, capture_content, r) ==
  IF w = "wrap_openai"
    THEN IF capture_content /\ r.content = "bad" THEN "AttributeError"
         ELSE IF r.usage = "bad" THEN "AttributeError"
         ELSE IF r.content = "bad" THEN "AttributeError"
         ELSE None
  ELSE IF w = "wrap_anthropic"
    THEN IF capture_content /\ r.content = "bad" THEN "TypeError"
         ELSE IF r.usage \in {"none", "bad"} THEN "AttributeError"
         ELSE None
  ELSE None

\* the span after the wrapper has read the response r without error
Extracted(w, capture_content, sp, r) ==
  IF w = "wrap_method"
    THEN IF capture_content THEN set_output(sp, Str("hello")) ELSE sp
  ELSE LET sp1 == IF capture_content /\ r.content = "ok"
                    THEN set_output(sp, Map([k \in {"content"} |->
                                               Str("hello")]))
                  ELSE sp
           sp2 == IF r.usage = "ok"
                    THEN set_token_usage(sp1, 1, 1,
                           IF w = "wrap_openai" THEN 2 ELSE NoCount)
                  ELSE sp1
       IN IF r.content = "ok" \/ w = "wrap_anthropic"
            THEN set_attribute(sp2, "llm.response.finish_reason", "stop")
          ELSE sp2

\* the wrapped method is called in unit u: parent read, span built and
\* filled, `with span:` entered
WrapperCall(u, w, capture_content) ==
  /\ Alive(u)
  /\ Len(spans) < MaxSpans
  /\ Len(withStack[u]) < MaxDepth
  /\ hist.nEnter < MaxEnters
  /\ LET id == Len(spans) + 1
         parent == get_current_span(u)
         sp0 == ActiveSpan(id, IF w = "wrap_method" THEN "chain" ELSE "llm",
                           parent,
                           IF parent # NoSpan THEN spans[parent].trace_id
                           ELSE NoSpan)
         sp1 == IF w = "wrap_method" THEN sp0
                ELSE set_attribute(
                       set_model(sp0, "m", IF w = "wrap_openai" THEN "openai"
                                           ELSE "anthropic"),
                       "llm.request.type", "chat")
         sp2 == IF capture_content
                  THEN set_input(sp1, Map([k \in {"messages"} |->
                                            List(<<Str("hello")>>)]))
                ELSE sp1
         tok == Token(cv, u, "current_span", nextToken)
     IN /\ spans' = Append(spans, [sp2 EXCEPT !._token = tok])
        /\ cv' = ContextVar_set(cv, u, "current_span", id)
        /\ nextToken' = nextToken + 1
        /\ withStack' = [withStack EXCEPT ![u] =
                           Append(@, [kind |-> "wrapper", obj |-> id,
                                      capture_output |-> capture_content,
                                      wrapper |-> w])]
        /\ hist' = LET h == Created(u, id)
                   IN [h EXCEPT !.nEnter = h.nEnter + 1, !.enters[id] = 1,
                                !.under[id] = StackSpans(u)]
        /\ wrapperCall' = [op |-> w, span |-> id, underlying |-> NoCall,
                           caller |-> NoCall]
  /\ UNCHANGED <<_global_context, redactCall, sdkOthers, extOthers, now, usedTokens,
                 units, _initialized, _config, _batching_client,
                 _privacy_config, handles, insertLog, raised>>

\* what leaves the wrapper when `with span:` exits: the exception of
\* __exit__ if it raises, else the wrapper's own outcome
Leaves_wrapper(u, s, outcome) ==
  LET err == ResetError(spans[s]._token, u, usedTokens)
  IN IF err # None THEN Raised(err) ELSE outcome

\* the original method returns r: the wrapper reads it inside the `try`
\* around the call, so an exception of these reads goes to
\* `except Exception as e: span.set_error(e); raise`
WrapperReturn(u, r, fault) ==
  /\ withStack[u] # << >>
  /\ Last(withStack[u]).kind = "wrapper"
  /\ LET top == Last(withStack[u])
         s == top.obj
         err == ExtractionError(top.wrapper, top.capture_output, r)
     IN /\ IF err = None
             THEN __exit__(u, s, Extracted(top.wrapper, top.capture_output,
                                           spans[s], r), None, fault)
           ELSE __exit__(u, s, set_error(spans[s], err), err, fault)
        /\ wrapperCall' =
             [op |-> top.wrapper, span |-> s, underlying |-> Returned(r),
              caller |-> Leaves_wrapper(u, s, IF err = None THEN Returned(r)
                                             ELSE Raised(err))]
  /\ withStack' = [withStack EXCEPT ![u] = Front(@)]
  /\ UNCHANGED <<_global_context, redactCall, sdkOthers, extOthers, now, nextToken,
                 units, _initialized, _config, _privacy_config, handles>>

\* the original method raises e: set_error(e), re-raise
WrapperRaise(u, e, fault) ==
  /\ withStack[u] # << >>
  /\ Last(withStack[u]).kind = "wrapper"
  /\ LET top == Last(withStack[u])
         s == top.obj
     IN /\ __exit__(u, s, set_error(spans[s], e), e, fault)
        /\ wrapperCall' =
             [op |-> top.wrapper, span |-> s, underlying |-> Raised(e),
              caller |-> Leaves_wrapper(u, s, Raised(e))]
  /\ withStack' = [withStack EXCEPT ![u] = Front(@)]
  /\ UNCHANGED <<_global_context, redactCall, sdkOthers, extOthers, now, nextToken,
                 units, _initialized, _config, _privacy_config, handles>>

\* ------------------------------------------------------------ initial state
Init ==
  /\ now = 0
  /\ spans = << >>
  /\ cv = [u \in Units |-> EmptyContext]
  /\ usedTokens = {}
  /\ nextToken = 1
  /\ units = [u \in Units |-> IF u = 1 THEN "main" ELSE "unborn"]
  /\ withStack = [u \in Units |-> << >>]
  /\ _initialized = FALSE
  /\ _config = NoConfig
  /\ _batching_client = NoClient
  /\ _privacy_config = PrivacyConfig(TRUE, << >>, << >>, FALSE, None)
  /\ handles = << >>
  /\ insertLog = << >>
  /\ raised = NoExc
  /\ hist = [nSet |-> 0, nEnter |-> 0,
             path |-> [u \in Units |-> << >>],
             inherited |-> [u \in Units |-> NoSpan],
             origin |-> [u \in Units |-> {}],
             expect |-> << >>, closedBy |-> << >>, enters |-> << >>,
             ends |-> << >>,
             under |-> << >>, reentered |-> FALSE,
             by |-> [u \in Units |-> NoSetter],
             atSpawn |-> [u \in Units |-> EmptyContext],
             ctxUnits |-> {}, leaked |-> 0, exited |-> FALSE, ret |-> NoReturn]
  /\ _global_context = EmptyDict
  /\ redactCall = NoCall
  /\ wrapperCall = NoCall
  /\ _client = NoClient
  /\ hooks = NoHooks
  /\ _lock = 0
  /\ pc = [t \in Units |-> << >>]
  /\ active_spans = EmptyDict
  /\ sent = << >>
  /\ callback = NoCallback
  /\ stream = NoStream
  /\ blocks = << >>
  /\ STATE_FILE = MissingFile
  /\ procs = << >>
  /\ toolCalls = << >>
  /\ clock_ms = 0

\* ------------------------------------------------------ inputs of the runs
Metadatas == {EmptyDict, [k \in {"k"} |-> "m"]}
Exceptions == {"ValueError"}
TokenArgs == {<<5, NoCount, NoCount>>, <<5, 2, 7>>}
ModelArgs == {<<"gpt", None>>, <<"gpt", "openai">>}

\* Span life cycle in the main thread: creation, `with` blocks, explicit
\* end(), SDK init and shutdown, faults inside _send.
EndNext ==
  \/ Tick
  \/ \E e \in BOOLEAN : init("key", e, FALSE, MaxQueue, TRUE, TRUE)
  \/ shutdown
  \/ Len(spans) < MaxPairSpans /\ trace(1, "chain", NonePayload, EmptyDict)
  \/ \E s \in SpanIds : Enter(1, s)
  \/ \E x \in Exceptions \cup {None}, f \in BOOLEAN : Exit(1, x, f)
  \/ \E s \in SpanIds, f \in BOOLEAN : End(s, f)

SpecEnd == Init /\ [][EndNext]_vars

\* The mutators of a span before and after end().
MutateNext ==
  \/ init("key", TRUE, FALSE, MaxQueue, TRUE, TRUE)
  \/ \E m \in Metadatas :
        Len(spans) < MaxPairSpans /\ trace(1, "chain", NonePayload, m)
  \/ \E s \in SpanIds : End(s, FALSE)
  \/ \E s \in SpanIds : SetInput(s, Str("hello"))
  \/ \E s \in SpanIds : SetOutput(s, Str("hello"))
  \/ \E s \in SpanIds : SetAttribute(s, "k", "v")
  \/ \E s \in SpanIds : SetAttributes(s, [k \in {"k", "j"} |-> "w"])
  \/ \E s \in SpanIds : AddEvent(s, "ev")
  \/ \E s \in SpanIds, x \in Exceptions : SetError(s, x)
  \/ \E s \in SpanIds, a \in TokenArgs : SetTokenUsage(s, a[1], a[2], a[3])
  \/ \E s \in SpanIds, a \in ModelArgs : SetModel(s, a[1], a[2])

SpecMutate == Init /\ [][MutateNext]_vars

\* Payloads on their way to the batching client: privacy configuration,
\* capture switches, payload mutators, end().
PayloadNext ==
  \/ \E ci \in BOOLEAN, co \in BOOLEAN :
        init("key", TRUE, FALSE, MaxQueue, ci, co)
  \/ \E e \in BOOLEAN, b \in BOOLEAN, p \in {<< >>, <<<<Seg("password")>>>>} :
        ConfigurePrivacy(e, << >>, p, FALSE, None, b)
  \/ \E i \in {NonePayload, Str("a@b.co"), Str("long")} :
        Len(spans) < MaxPayloadSpans /\ start_span(1, "tool", i, EmptyDict)
  \/ \E s \in SpanIds, d \in {Str("hello"), Dict("hello")} : SetOutput(s, d)
  \/ \E s \in SpanIds : End(s, FALSE)

SpecPayload == Init /\ [][PayloadNext]_vars

\* Parent linkage: spans created by trace() / start_span() and by traceable
\* wrappers, in the main thread and in spawned asyncio tasks.
ParentNext ==
  \/ \E u \in Units, v \in Units : SpawnTask(u, v)
  \/ \E u \in Units : trace(u, "chain", NonePayload, EmptyDict)
  \/ \E u \in Units, s \in SpanIds : Enter(u, s)
  \/ \E u \in Units : Exit(u, None, FALSE)
  \/ \E s \in SpanIds : End(s, FALSE)
  \/ \E u \in Units :
        TraceableCall(u, "tool", FALSE, FALSE, EmptyDict, Dict("hello"))
  \/ \E u \in Units : TraceableReturn(u, Str("hello"), FALSE)
  \/ \E u \in Units, x \in Exceptions : TraceableRaise(u, x, FALSE)

SpecParent == Init /\ [][ParentNext]_vars

\* Timing of a parent and its child: the clock, `with` blocks, traceable
\* wrappers, explicit end(), children in spawned asyncio tasks.
TimingNext ==
  \/ Tick
  \/ \E u \in Units, v \in Units : SpawnTask(u, v)
  \/ \E u \in Units :
        Len(spans) < MaxPairSpans /\ trace(u, "chain", NonePayload, EmptyDict)
  \/ \E u \in Units, s \in SpanIds : Enter(u, s)
  \/ \E u \in Units : Exit(u, None, FALSE)
  \/ \E s \in SpanIds : End(s, FALSE)
  \/ \E u \in Units :
        /\ Len(spans) < MaxPairSpans
        /\ TraceableCall(u, "tool", FALSE, FALSE, EmptyDict, Dict("hello"))
  \/ \E u \in Units : TraceableReturn(u, Str("hello"), FALSE)

SpecTiming == Init /\ [][TimingNext]_vars

\* =================================================================== claims
EdgesOf(s) == {i \in DOMAIN insertLog : insertLog[i].edge.src = s}

\* C1: for any sequence of end() calls on one span (explicit, or made by the
\* exit of a `with span` block) the span is handed to the batching client at
\* most once, end_time is set by the first call and never changes afterwards,
\* and no end() call raises.
C1_EndIsIdempotent ==
  /\ [](/\ \A s \in DOMAIN spans : Cardinality(EdgesOf(s)) <= 1
        /\ raised.end_exc = None)
  /\ [][\A s \in DOMAIN spans :
          /\ spans[s]._ended =>
               spans'[s]._ended /\ spans'[s].end_time = spans[s].end_time
          /\ ~spans[s]._ended /\ spans'[s]._ended => spans'[s].end_time = now]_vars

\* end() was called twice on a span that reached the batching client, and
\* the clock has moved on since its end_time was taken
C1_Witness ==
  \E s \in DOMAIN spans :
     /\ hist.ends[s] = 2
     /\ Cardinality(EdgesOf(s)) = 1
     /\ spans[s].end_time < now

\* what the mutators write
Content(sp) ==
  [input_data |-> sp.input_data, output_data |-> sp.output_data,
   attributes |-> sp.attributes, events |-> sp.events, error |-> sp.error,
   token_usage |-> sp.token_usage]

\* C2: after end() every mutator is a no-op: input, output, attributes,
\* events, error and token usage of an ended span never change.
C2_MutatorsNoOpAfterEnd ==
  [][\A s \in DOMAIN spans :
       spans[s]._ended => Content(spans'[s]) = Content(spans[s])]_vars

\* the content of an edge as the delivery pipeline reads it: the references
\* to the span's attributes dict and events list are followed
EdgeContent(e) ==
  [payload |-> [k \in DOMAIN e.payload |->
                  IF k = "attributes" THEN spans[e.payload[k].ref].attributes
                  ELSE IF k = "events" THEN spans[e.payload[k].ref].events
                  ELSE e.payload[k]],
   timestamp_us |-> e.timestamp_us, duration_us |-> e.duration_us,
   token_count |-> e.token_count]

\* the same edge with the attributes and events it had when it was inserted
InsertedContent(l) ==
  [payload |-> [k \in DOMAIN l.edge.payload |->
                  IF k = "attributes" THEN l.attributes
                  ELSE IF k = "events" THEN l.events
                  ELSE l.edge.payload[k]],
   timestamp_us |-> l.edge.timestamp_us, duration_us |-> l.edge.duration_us,
   token_count |-> l.edge.token_count]

Queued(e) ==
  /\ _batching_client.live
  /\ \E k \in DOMAIN _batching_client._buffer : _batching_client._buffer[k] = e

\* C3: the content of an edge queued in the batching client never changes,
\* whatever is invoked on the span object afterwards.
C3_QueuedEdgeImmutable ==
  \A i \in DOMAIN insertLog :
     Queued(insertLog[i].edge) =>
        EdgeContent(insertLog[i].edge) = InsertedContent(insertLog[i])

\* C4: the input and output of every edge handed to insert() are the
\* redacted form, under the privacy configuration in force, of what the span
\* held.
C4_RedactedBeforeInsert ==
  \A i \in DOMAIN insertLog :
     LET l == insertLog[i]
         pl == l.edge.payload
     IN /\ "input" \in DOMAIN pl =>
             pl["input"] = redact_payload(l.privacy, _safe_serialize(l.raw_input))
        /\ "output" \in DOMAIN pl =>
             pl["output"] = redact_payload(l.privacy, _safe_serialize(l.raw_output))

\* C5: a span created without an explicit parent has as parent the most
\* recently started span on the current call path that is not yet closed,
\* however that span was started; it is a root only when there is none.
C5_ParentIsMostRecentOpen ==
  \A s \in DOMAIN spans : spans[s].parent_id = hist.expect[s].mrs

\* C5 as amended: the parent is the span whose `with` block (or traceable
\* wrapper) was entered last and not yet exited in the creating unit, else
\* the span that was current when the unit was spawned, else none - provided
\* no span has been entered while it was already entered.
C5_ParentIsInnermostEntered ==
  \A s \in DOMAIN spans :
     hist.expect[s].clean => spans[s].parent_id = hist.expect[s].innermost

\* a span whose parent is the entered span although a span started later by
\* start_span() is still open
C5_Witness ==
  \E s \in DOMAIN spans :
     /\ hist.expect[s].clean
     /\ spans[s].parent_id # NoSpan
     /\ spans[s].parent_id = hist.expect[s].innermost
     /\ hist.expect[s].mrs # hist.expect[s].innermost

HasParent(c) == spans[c].parent_id # NoSpan

\* C6: every span with a parent starts no earlier than the parent, and
\* whenever the parent is closed the child is closed and ended no later.
C6_ParentEnclosesChild ==
  \A c \in DOMAIN spans :
     HasParent(c) =>
       LET p == spans[c].parent_id
       IN /\ spans[p].start_time <= spans[c].start_time
          /\ spans[p]._ended =>
               spans[c]._ended /\ spans[p].end_time >= spans[c].end_time

\* the child's block was entered inside the parent's block, in the same
\* unit, each of them entered once, and the parent was closed by the exit of
\* its block
NestedBlocks(p, c) ==
  /\ hist.enters[p] = 1 /\ hist.enters[c] = 1
  /\ p \in hist.under[c]
  /\ hist.closedBy[p] = "exit"

\* C6 as amended: a child never starts before its parent; the parent ends no
\* earlier than the child when their blocks are nested and the parent was
\* closed by the exit of its block.
C6_NestedParentEnclosesChild ==
  \A c \in DOMAIN spans :
     HasParent(c) =>
       LET p == spans[c].parent_id
       IN /\ spans[p].start_time <= spans[c].start_time
          /\ NestedBlocks(p, c) =>
               spans[c]._ended /\ spans[p].end_time >= spans[c].end_time

\* a closed parent strictly encloses its nested child's end
C6_Witness ==
  \E c \in DOMAIN spans :
     /\ HasParent(c)
     /\ NestedBlocks(spans[c].parent_id, c)
     /\ spans[spans[c].parent_id].start_time < spans[c].start_time
     /\ spans[spans[c].parent_id].end_time > spans[c].end_time

\* C7: every edge produced for a span with a parent carries the parent's id,
\* and edges reach the batching client in the order of the end() calls.
C7_EdgeCarriesParent ==
  /\ \A i \in DOMAIN insertLog :
        LET e == insertLog[i].edge
        IN HasParent(e.src) =>
             "parent_id" \in DOMAIN e /\ e.parent_id = spans[e.src].parent_id
  /\ \A i, j \in DOMAIN insertLog :
        i < j => spans[insertLog[i].edge.src].end_time
                   <= spans[insertLog[j].edge.src].end_time

\* Context scopes: handles are created, entered and exited in the main
\* thread, in spawned asyncio tasks and in spawned threads.
CtxNext ==
  \/ \E sid \in {None, "s1"}, wid \in {None, ""} :
        NewAgentContext("a1", sid, wid, None)
  \/ \E c \in {[f \in {"agent_id"} |-> "a2"],
               [f \in {"session_id", "user_id"} |-> "x2"]} : with_context(c)
  \/ \E u \in Units, h \in Handles : EnterCtx(u, h)
  \/ \E u \in Units : ExitCtx(u)
  \/ \E u \in Units, v \in Units : SpawnTask(u, v)
  \/ \E u \in Units, v \in Units : SpawnThread(u, v)

SpecCtx == Init /\ [][CtxNext]_vars

CtxEntries(stk) == SelectSeq(stk, LAMBDA e : e.kind = "ctx")

\* the `with handle:` blocks open in unit u that set field f, outermost first
SettingScopes(u, f) ==
  LET sets(e) == \E i \in DOMAIN EnterSets(handles[e.obj]) :
                    EnterSets(handles[e.obj])[i] = f
  IN SelectSeq(CtxEntries(withStack[u]), sets)

\* the value of field f that nested scopes promise in unit u: the one set by
\* the innermost open scope that sets f, else the value the unit started with
Expected(u, f) ==
  IF SettingScopes(u, f) = << >> THEN hist.atSpawn[u][f]
  ELSE handles[Last(SettingScopes(u, f)).obj].context[f]

\* C8: for properly nested activations in one execution unit, every field
\* equals the value set by the innermost enclosing scope that sets it, unset
\* fields fall through, and after a scope exits every field has the value it
\* had before the scope was entered.
C8_ScopedLookup ==
  \A u \in Units :
     Alive(u) /\ hist.ctxUnits \subseteq {u} =>
        \A f \in CtxFields : cv[u][f] = Expected(u, f)

Untouched(v) == units[v] \in {"task", "thread"} /\ v \notin hist.ctxUnits

\* C10: a child unit (task or thread) observes the values of the scopes that
\* were active in its parent when it was started, whatever the parent does
\* afterwards.
C10_ChildObservesParentScope ==
  \A v \in Units :
     Untouched(v) => \A f \in CtxFields : cv[v][f] = hist.atSpawn[v][f]

\* C10 as amended: an asyncio task observes the values that were active in
\* its creator when it was created, whatever the creator does afterwards; a
\* new thread observes None for every field.
C10_TaskInheritsThreadDoesNot ==
  \A v \in Units :
     Untouched(v) =>
        \A f \in CtxFields :
           cv[v][f] = IF units[v] = "task" THEN hist.atSpawn[v][f] ELSE None

\* a task still observes the agent id of a scope its creator has left
C10_Witness ==
  \E v \in Units :
     /\ Untouched(v) /\ units[v] = "task"
     /\ hist.atSpawn[v].agent_id # None
     /\ get_current_agent_id(v) = hist.atSpawn[v].agent_id
     /\ \E u \in hist.origin[v] :
           withStack[u] = << >> /\ get_current_agent_id(u) = None

\* C11: no context operation raises: every __enter__ and __exit__ of an
\* AgentContext / ContextScope handle returns normally, also when a handle
\* is entered more than once.
C11_ContextOpsNeverRaise == raised.exc = None

\* Global defaults next to scopes: set_context and clear_context, scopes
\* entered and exited, lookups from the main thread, tasks and threads.
SetContextArgs ==
  {[user_id |-> "g1", session_id |-> None, agent_id |-> None,
    workflow_id |-> None],
   [user_id |-> None, session_id |-> None, agent_id |-> "g2",
    workflow_id |-> None]}

GlobalNext ==
  \/ \E u \in Units, kw \in SetContextArgs : set_context(u, kw)
  \/ clear_context
  \/ with_context([f \in {"user_id"} |-> "x2"])
  \/ \E u \in Units, h \in Handles :
        hist.nEnter < MaxGlobalEnters /\ EnterCtx(u, h)
  \/ \E u \in Units : ExitCtx(u)
  \/ \E u \in Units, v \in Units : SpawnThread(u, v)

SpecGlobal == Init /\ [][GlobalNext]_vars

GlobalDefault(f) ==
  IF f \in DOMAIN get_global_context THEN get_global_context[f] ELSE None

\* C12: a lookup of a field returns the value of the innermost active scope
\* that sets it, and with no such scope the global default: the value given
\* to set_context, in every execution unit, and None after clear_context.
C12_LookupFallsBackToGlobal ==
  \A u \in Units :
     Alive(u) =>
        \A f \in CtxFields :
           cv[u][f] = IF SettingScopes(u, f) # << >>
                      THEN handles[Last(SettingScopes(u, f)).obj].context[f]
                      ELSE GlobalDefault(f)

\* Redaction as a function of the configuration and the payload.
Leaves == {Str("hello"), Str("a@b.co"), Str("secret123"), Str(""), Num(1)}

\* {"password": x, "query": y}
Credentials ==
  {Map([k \in {"password", "query"} |-> IF k = "password" THEN x ELSE y]) :
     x \in {Str("secret123"), Str("a@b.co"), Num(1)},
     y \in {Str("hello"), Str("a@b.co")}}

RedactPayloads ==
  Leaves \cup Credentials
    \cup {Map([k \in {"input"} |-> d]) : d \in Credentials}
    \cup {Map([k \in {"Password"} |-> x]) : x \in Leaves}
    \cup {List(<<Str("hello"), d>>) : d \in Credentials}
    \cup {Map([k \in {"items"} |-> List(<<d>>)]) : d \in Credentials}
    \cup {Map([k \in {"items"} |-> Tuple(<<d>>)]) : d \in Credentials}

\* scrub_paths=[], ["password"], ["input.password"], ["Items"]
ScrubArgs ==
  {<< >>, <<<<Seg("password")>>>>, <<<<Seg("input"), Seg("password")>>>>,
   <<<<Seg("Items")>>>>}

\* (use_builtin_patterns, redact_patterns, hash_pii, custom_redactor)
PatternArgs ==
  {<<TRUE, << >>, FALSE, None>>, <<TRUE, << >>, TRUE, None>>,
   <<TRUE, << >>, FALSE, "mask">>, <<FALSE, << >>, FALSE, None>>,
   <<TRUE, <<"secret-\\w+">>, FALSE, None>>}

RedactNext ==
  \/ \E sp \in ScrubArgs, a \in PatternArgs :
        ConfigurePrivacy(TRUE, a[2], sp, a[3], a[4], a[1])
  \/ ConfigurePrivacy(FALSE, << >>, <<<<Seg("password")>>>>, FALSE, None, TRUE)
  \/ \E payload \in RedactPayloads : Redact(payload)

SpecRedact == Init /\ [][RedactNext]_vars

\* result r is payload v with exactly the nodes on a scrub path replaced by
\* the marker: keys, sequence lengths and non-string scalars are kept
RECURSIVE ScrubbedExactly(_, _, _, _)
ScrubbedExactly(cfg, v, r, path) ==
  IF path # << >> /\ _should_scrub_path(cfg, path)
    THEN r = Str(cfg.redacted_text)
  ELSE IF v.t = "dict"
    THEN /\ r.t = "dict"
         /\ DOMAIN r.items = DOMAIN v.items
         /\ \A k \in DOMAIN v.items :
               ScrubbedExactly(cfg, v.items[k], r.items[k], KeyPath(path, k))
  ELSE IF v.t \in {"list", "tuple"}
    THEN /\ r.t = v.t
         /\ Len(r.items) = Len(v.items)
         /\ \A i \in DOMAIN v.items :
               ScrubbedExactly(cfg, v.items[i], r.items[i],
                               ItemPath(path, i - 1))
  ELSE IF v.t \in {"str", "trunc"} THEN r.t = v.t
  ELSE r = v

\* C13: for any payload and any enabled configuration, redact_payload
\* replaces exactly the nodes whose key-path matches a scrub path by the
\* marker, before any pattern work there, and keeps the keys, the sequence
\* lengths and the non-string scalars of all other nodes.
C13_ScrubPathsReplaced ==
  redactCall.op = "redact_payload" /\ redactCall.config.enabled =>
     ScrubbedExactly(redactCall.config, redactCall.arg, redactCall.result,
                     << >>)

\* no string of the payload matches a configured pattern and no key-path
\* matches a scrub path
RECURSIVE NothingToRedact(_, _, _)
NothingToRedact(cfg, v, path) ==
  /\ ~(path # << >> /\ _should_scrub_path(cfg, path))
  /\ IF v.t = "dict"
       THEN \A k \in DOMAIN v.items :
               NothingToRedact(cfg, v.items[k], KeyPath(path, k))
     ELSE IF v.t \in {"list", "tuple"}
       THEN \A i \in DOMAIN v.items :
               NothingToRedact(cfg, v.items[i], ItemPath(path, i - 1))
     ELSE IF v.t \in {"str", "trunc"}
       THEN \A i \in DOMAIN cfg.redact_patterns :
               ~Matches(cfg.redact_patterns[i], v.v)
     ELSE TRUE

\* C14: redacting a payload in which no string matches a configured pattern
\* and no key-path matches a scrub path returns a value equal to the input,
\* and the input object is not modified.
C14_NoMatchIsIdentity ==
  /\ redactCall.op = "redact_payload"
  /\ NothingToRedact(redactCall.config, redactCall.arg, << >>)
  => redactCall.result = redactCall.arg /\ redactCall.payload = redactCall.arg

\* C14 as amended: the same when no custom redactor is configured.
C14_NoMatchNoRedactorIsIdentity ==
  /\ redactCall.op = "redact_payload"
  /\ NothingToRedact(redactCall.config, redactCall.arg, << >>)
  /\ redactCall.config.custom_redactor = None
  => redactCall.result = redactCall.arg /\ redactCall.payload = redactCall.arg

\* a nested payload went unchanged through an enabled configuration that
\* has patterns and a scrub path
C14_Witness ==
  /\ redactCall.op = "redact_payload"
  /\ redactCall.config.enabled
  /\ redactCall.config.custom_redactor = None
  /\ Len(redactCall.config.redact_patterns) = 2
  /\ redactCall.config.scrub_paths # << >>
  /\ redactCall.arg.t = "dict"
  /\ "items" \in DOMAIN redactCall.arg.items
  /\ redactCall.arg.items["items"].t = "list"
  /\ NothingToRedact(redactCall.config, redactCall.arg, << >>)
  /\ redactCall.result = redactCall.arg

\* Configuration calls with well-formed and malformed patterns, and
\* redaction under the resulting configuration.
PatternLists ==
  {<< >>, <<"secret-\\w+">>, <<"(">>, <<"secret-\\w+", "(">>}

PrivacyConfigNext ==
  \/ \E e \in BOOLEAN, rp \in PatternLists,
        sp \in {<< >>, <<<<Seg("password")>>>>}, b \in BOOLEAN :
        ConfigurePrivacy(e, rp, sp, FALSE, None, b)
  \/ \E pattern \in {"secret-\\w+", "("} : AddPattern(pattern)
  \/ \E payload \in {Str("hello"), Str("secret-x"), Dict("a@b.co")} :
        Redact(payload)

SpecPrivacyConfig == Init /\ [][PrivacyConfigNext]_vars

\* a configure_privacy or add_pattern call that is given a malformed pattern
MalformedCall ==
  \/ \E e \in BOOLEAN, rp \in {<<"(">>, <<"secret-\\w+", "(">>},
        sp \in {<< >>, <<<<Seg("password")>>>>}, b \in BOOLEAN :
        ConfigurePrivacy(e, rp, sp, FALSE, None, b)
  \/ AddPattern("(")

\* C15: a malformed regex given to configure_privacy or add_pattern raises
\* at that call and never at redact time, and the call leaves the active
\* privacy configuration as it was.
C15_MalformedPatternRejected ==
  /\ [][MalformedCall => raised'.exc = "re.error"]_vars
  /\ [][raised'.exc = "re.error" => _privacy_config' = _privacy_config]_vars
  /\ [](raised.op # "redact_payload")

\* a malformed pattern was rejected while a configuration with a scrub path
\* and two patterns was active, and redaction under it still works
C15_Witness ==
  /\ raised.exc = "re.error"
  /\ _privacy_config.scrub_paths # << >>
  /\ Len(_privacy_config.redact_patterns) = 2
  /\ redactCall.op = "redact_payload"
  /\ redactCall.result = Str(REDACTED)
\* ---------------------------------------------------------------- C16
ApiKeys == {None, "key"}

InitNext ==
  \/ \E k \in ApiKeys, e \in BOOLEAN, st \in BOOLEAN, q \in 1..MaxQueue,
        ci \in BOOLEAN, co \in BOOLEAN : init(k, e, st, q, ci, co)
  \/ shutdown

SpecInit == Init /\ [][InitNext]_vars

\* a call of init() in strict mode with no API key
StrictInitNoKey ==
  \E e \in BOOLEAN, q \in 1..MaxQueue, ci \in BOOLEAN, co \in BOOLEAN :
    init(None, e, TRUE, q, ci, co)

\* C16: init() in strict mode with no API key, on an SDK that is not
\* initialized, raises and leaves the SDK state as it was before the call:
\* not initialized, the stored configuration, the clients and the hooks
\* unchanged, and get_stats() printing what it printed before.
C16_StrictInitLeavesNoTrace ==
  [][(~_initialized /\ StrictInitNoKey) =>
       /\ raised'.exc = "ValueError"
       /\ UNCHANGED <<_initialized, _config, _client, _batching_client, hooks>>
       /\ get_stats' = get_stats]_vars

\* ---------------------------------------------------------------- C17
LifecycleNext ==
  \/ SpawnThread(1, 2)
  \/ \E t \in Units, e \in BOOLEAN : InitCall(t, "key", e, FALSE)
  \/ \E t \in Units : Shutdown(t)
  \/ \E t \in Units : Reset(t)
  \/ \E t \in Units : with_lock(t)
  \/ \E t \in Units : ShutdownLocked(t)
  \/ \E t \in Units : ResetLocked(t)
  \/ _signal_handler
  \/ _atexit_handler

SpecLifecycle == Init /\ [][LifecycleNext]_vars

\* batching clients created by init() and not closed
LiveClients == hist.leaked + (IF _batching_client.live THEN 1 ELSE 0)

\* C17: under every interleaving of init(), shutdown(), reset(), the signal
\* handler and the exit hook, at most one batching client is live at a
\* time, init() on an initialized SDK creates nothing, and once the exit
\* hook has run every batching client created has been closed.
C17_OneClientClosedOnce ==
  /\ [](LiveClients <= 1)
  /\ [][\A t \in Units, e \in BOOLEAN :
          (_initialized /\ InitCall(t, "key", e, FALSE)) =>
             UNCHANGED <<_config, _client, _batching_client, hooks>>]_vars
  /\ [](hist.exited => LiveClients = 0)

\* ---------------------------------------------------------------- C18
FlushNext ==
  \/ SpawnThread(1, 2)
  \/ \E e \in BOOLEAN : InitCall(1, "key", e, FALSE)
  \/ \E t \in Units : Shutdown(t)
  \/ \E t \in Units : with_lock(t)
  \/ \E t \in Units : ShutdownLocked(t)
  \/ \E t \in Units : Flush(t)
  \/ \E t \in Units : FlushCount(t)
  \/ \E u \in Units :
        Len(spans) < MaxPayloadSpans /\ trace(u, "chain", NonePayload, EmptyDict)
  \/ \E s \in SpanIds, f \in BOOLEAN : End(s, f)

SpecFlush == Init /\ [][FlushNext]_vars

\* C18: under every interleaving of flush(), shutdown() and span end() in
\* concurrent threads no call raises into its caller, flush() returns 0
\* when there is no live batching client, and shutdown() on an SDK that is
\* not initialized changes nothing.
C18_FlushShutdownNeverRaise ==
  /\ [](raised.exc = None /\ raised.end_exc = None)
  /\ [][\A t \in Units :
          (Flush(t) /\ (~_initialized \/ ~_batching_client.live)) =>
             (hist'.ret = 0 /\ pc' = pc)]_vars
  /\ [][\A t \in Units :
          (Shutdown(t) /\ ~_initialized) =>
             UNCHANGED <<_initialized, _config, _client, _batching_client,
                         hooks, insertLog, pc>>]_vars

\* ---------------------------------------------------------------- C19
PipelineNext ==
  \/ \E e \in BOOLEAN : init("key", e, FALSE, MaxQueue, TRUE, TRUE)
  \/ shutdown
  \/ Len(spans) < MaxPairSpans /\ trace(1, "chain", NonePayload, EmptyDict)
  \/ \E s \in SpanIds : Enter(1, s)
  \/ \E x \in Exceptions \cup {None}, f \in BOOLEAN : Exit(1, x, f)
  \/ \E s \in SpanIds, f \in BOOLEAN : End(s, f)
  \/ /\ Len(spans) < MaxPairSpans
     /\ TraceableCall(1, "chain", TRUE, TRUE, EmptyDict, Str("hello"))
  \/ \E f \in BOOLEAN : TraceableReturn(1, Str("hello"), f)
  \/ \E x \in Exceptions, f \in BOOLEAN : TraceableRaise(1, x, f)

SpecPipeline == Init /\ [][PipelineNext]_vars

\* a `with span:` block or a traceable wrapper of unit u exits
ExitStep(u) ==
  \/ \E x \in Exceptions \cup {None}, f \in BOOLEAN : Exit(u, x, f)
  \/ \E f \in BOOLEAN : TraceableReturn(u, Str("hello"), f)
  \/ \E x \in Exceptions, f \in BOOLEAN : TraceableRaise(u, x, f)

\* the same while building the edge or client.insert fails
ExitStepFault(u) ==
  \/ \E x \in Exceptions \cup {None} : Exit(u, x, TRUE)
  \/ TraceableReturn(u, Str("hello"), TRUE)
  \/ \E x \in Exceptions : TraceableRaise(u, x, TRUE)

\* what _current_span.reset(self._token) raises at the end of the innermost
\* block of unit u, whatever the pipeline does
ExitError(u) ==
  ResetError(spans[Last(withStack[u]).obj]._token, u, usedTokens)

\* the pipeline cannot take a span: not initialized, disabled or shut down
PipelineDown == ~_initialized \/ ~_config.enabled

\* C19: end() and the exit of a `with span:` block or of a traceable wrapper
\* never raise because of the pipeline: with the SDK not initialized,
\* disabled or shut down, or with the edge construction or the insert
\* failing, the span is marked ended, nothing is delivered, end() raises
\* nothing and the exit raises only what the reset of the ContextVar raises.
C19_PipelineNeverReachesCaller ==
  /\ [](raised.end_exc = None)
  /\ [][\A s \in SpanIds, f \in BOOLEAN :
          End(s, f) => (raised' = NoExc /\ spans'[s]._ended)]_vars
  /\ [][ExitStep(1) =>
          /\ raised'.exc = ExitError(1)
          /\ spans'[Last(withStack[1]).obj]._ended]_vars
  /\ [][((\E s \in SpanIds : End(s, TRUE)) \/ ExitStepFault(1)) =>
          UNCHANGED <<insertLog, _batching_client>>]_vars
  /\ [][(PipelineDown /\ ((\E s \in SpanIds, f \in BOOLEAN : End(s, f))
                           \/ ExitStep(1))) =>
          UNCHANGED <<insertLog, _batching_client>>]_vars

\* a span closed by the exit of its block while the pipeline could not take
\* it: ended, no edge, nothing raised
C19_Witness ==
  /\ raised = NoExc
  /\ \E s \in DOMAIN spans :
       /\ spans[s]._ended
       /\ hist.closedBy[s] = "exit"
       /\ EdgesOf(s) = {}

\* ---------------------------------------------------------------- C20
WrapNext ==
  \/ \E e \in BOOLEAN : init("key", e, FALSE, MaxQueue, TRUE, TRUE)
  \/ \E w \in Wrappers, c \in BOOLEAN :
        Len(spans) < MaxPairSpans /\ WrapperCall(1, w, c)
  \/ \E r \in Responses, f \in BOOLEAN : WrapperReturn(1, r, f)
  \/ \E x \in Exceptions, f \in BOOLEAN : WrapperRaise(1, x, f)

SpecWrap == Init /\ [][WrapNext]_vars

\* C20: a call through a wrapper of wrap_openai, wrap_anthropic or
\* wrap_method gives the caller what the underlying call gave: the same
\* response when it returned, with no error recorded on the span even if
\* reading the response failed, and its exception when it raised.
C20_WrapperIsTransparent ==
  (wrapperCall.op # "none" /\ wrapperCall.underlying # NoCall) =>
     /\ wrapperCall.caller.kind = wrapperCall.underlying.kind
     /\ wrapperCall.caller.value = wrapperCall.underlying.value
     /\ wrapperCall.underlying.kind = "returned" =>
          spans[wrapperCall.span].error = None


\* ------------------------------------------- examples/langchain_callback.py
\* The run ids LangChain passes in kwargs; Absent is a call without run_id.
RunIds == {"r1", "r2"}
Absent == "absent"
Generations == {"one", "empty"}

Without(d, k) == [x \in (DOMAIN d) \ {k} |-> d[x]]

CallbackUnchanged ==
  UNCHANGED <<ctxOthers, sdkOthers, stream, blocks, hookVars, now, spans, cv, usedTokens, nextToken,
              units, withStack, _initialized, _config, _batching_client,
              _privacy_config, handles, insertLog, raised, hist>>

\* Flowtrace.send_span(span, duration=duration)
send_span(span, duration) == Append(sent, [span |-> span, duration |-> duration])

\* on_llm_start: the key is str(run_id), or str(time.time()) without run_id;
\* a new GenAISpan is stored under it with the time of the call.
on_llm_start(run_id) ==
  LET key  == IF run_id = Absent THEN ToString(now) ELSE run_id
      span == callback.created + 1
  IN /\ callback.n < MaxCallbacks
     /\ active_spans' = Put(active_spans, key, [span |-> span, start_time |-> now])
     /\ callback' = [n |-> callback.n + 1, op |-> "start", key |-> key,
                     exc |-> None, created |-> span]
     /\ UNCHANGED sent
     /\ CallbackUnchanged

\* on_llm_end with the entry kept in the table (a lookup instead of pop)
on_llm_end_keep(run_id, generations) ==
  LET key == IF run_id = Absent THEN "" ELSE run_id
  IN /\ callback.n < MaxCallbacks
     /\ IF key \notin DOMAIN active_spans
        THEN /\ callback' = [callback EXCEPT !.n = @ + 1, !.op = "end",
                                             !.key = key, !.exc = None]
             /\ UNCHANGED <<active_spans, sent>>
        ELSE /\ UNCHANGED active_spans
             /\ IF generations = "empty"
                THEN /\ callback' = [callback EXCEPT !.n = @ + 1, !.op = "end",
                                       !.key = key, !.exc = "IndexError"]
                     /\ UNCHANGED sent
                ELSE /\ callback' = [callback EXCEPT !.n = @ + 1, !.op = "end",
                                       !.key = key, !.exc = None]
                     /\ sent' = send_span(active_spans[key].span,
                                          now - active_spans[key].start_time)
     /\ CallbackUnchanged

\* on_llm_end: returns when the key is not stored; else pops the entry,
\* reads response.generations[0] (IndexError on an empty list) and sends.
on_llm_end(run_id, generations) ==
  LET key == IF run_id = Absent THEN "" ELSE run_id
  IN /\ callback.n < MaxCallbacks
     /\ IF key \notin DOMAIN active_spans
        THEN /\ callback' = [callback EXCEPT !.n = @ + 1, !.op = "end",
                                             !.key = key, !.exc = None]
             /\ UNCHANGED <<active_spans, sent>>
        ELSE /\ active_spans' = Without(active_spans, key)
             /\ IF generations = "empty"
                THEN /\ callback' = [callback EXCEPT !.n = @ + 1, !.op = "end",
                                       !.key = key, !.exc = "IndexError"]
                     /\ UNCHANGED sent
                ELSE /\ callback' = [callback EXCEPT !.n = @ + 1, !.op = "end",
                                       !.key = key, !.exc = None]
                     /\ sent' = send_span(active_spans[key].span,
                                          now - active_spans[key].start_time)
     /\ CallbackUnchanged

\* on_llm_error: the same lookup and pop, then the send
on_llm_error(run_id) ==
  LET key == IF run_id = Absent THEN "" ELSE run_id
  IN /\ callback.n < MaxCallbacks
     /\ callback' = [callback EXCEPT !.n = @ + 1, !.op = "error",
                                     !.key = key, !.exc = None]
     /\ IF key \notin DOMAIN active_spans
        THEN UNCHANGED <<active_spans, sent>>
        ELSE /\ active_spans' = Without(active_spans, key)
             /\ sent' = send_span(active_spans[key].span,
                                  now - active_spans[key].start_time)
     /\ CallbackUnchanged

\* =================================================================== C21
CallbackNext ==
  \/ \E r \in RunIds \cup {Absent} : on_llm_start(r)
  \/ \E r \in RunIds \cup {Absent}, g \in Generations : on_llm_end(r, g)
  \/ \E r \in RunIds \cup {Absent} : on_llm_error(r)
  \/ Tick

SpecCallback == Init /\ [][CallbackNext]_vars

\* the spans handed to send_span so far
SentSpans == {sent[i].span : i \in 1..Len(sent)}

\* C21: an end or error callback whose key is not stored changes nothing and
\* raises nothing; one whose key is stored removes the entry and sends at
\* most the span stored under it, and no span is ever sent twice.
C21_OneSendPerRun ==
  [][callback'.n # callback.n /\ callback'.op \in {"end", "error"} =>
       LET key == callback'.key
       IN IF key \notin DOMAIN active_spans
          THEN /\ active_spans' = active_spans
               /\ sent' = sent
               /\ callback'.exc = None
          ELSE /\ key \notin DOMAIN active_spans'
               /\ \/ sent' = sent
                  \/ /\ sent' = Append(sent, Last(sent'))
                     /\ Last(sent').span = active_spans[key].span
                     /\ Last(sent').span \notin SentSpans]_vars

\* a second end callback for a run already sent has arrived
C21_Witness ==
  /\ callback.op \in {"end", "error"}
  /\ callback.key \in RunIds
  /\ callback.key \notin DOMAIN active_spans
  /\ Len(sent) = 1
  /\ callback.n = 3


\* ------------------------------------------------ wrappers.py: streaming
\* With stream=True the original create() returns an iterator of chunks: an
\* object without `choices` and `usage`, so the wrapper reads nothing of it.
StreamResponse == [content |-> "absent", usage |-> "none"]

\* the original method returns a stream of n chunks: the wrapper returns it
\* from inside `with span:`, whose __exit__ runs before the caller sees it
WrapperReturnStream(u, n, fault) ==
  /\ withStack[u] # << >>
  /\ Last(withStack[u]).kind = "wrapper"
  /\ Last(withStack[u]).wrapper = "wrap_openai"
  /\ LET top == Last(withStack[u])
         s == top.obj
     IN /\ __exit__(u, s, Extracted(top.wrapper, top.capture_output,
                                    spans[s], StreamResponse), None, fault)
        /\ wrapperCall' =
             [op |-> top.wrapper, span |-> s,
              underlying |-> Returned(StreamResponse),
              caller |-> Leaves_wrapper(u, s, Returned(StreamResponse))]
        /\ stream' = [span |-> s, remaining |-> n, delivered |-> 0,
                      raised |-> FALSE]
  /\ withStack' = [withStack EXCEPT ![u] = Front(@)]
  /\ UNCHANGED <<_global_context, redactCall, sdkOthers, active_spans, sent,
                 callback, blocks, hookVars, now, nextToken, units, _initialized,
                 _config, _privacy_config, handles>>

StreamUnchanged ==
  UNCHANGED <<ctxOthers, sdkOthers, active_spans, sent, callback, blocks,
              hookVars, now,
              spans, cv, usedTokens, nextToken, units, withStack, _initialized,
              _config, _batching_client, _privacy_config, handles, insertLog,
              raised, hist>>

\* the caller takes the next chunk of the returned stream: no code of the
\* wrapper runs
StreamChunk ==
  /\ stream.span # NoSpan
  /\ stream.remaining > 0
  /\ ~stream.raised
  /\ stream' = [stream EXCEPT !.remaining = @ - 1, !.delivered = @ + 1]
  /\ StreamUnchanged

\* the stream raises instead of delivering its next chunk
StreamRaise ==
  /\ stream.span # NoSpan
  /\ stream.remaining > 0
  /\ ~stream.raised
  /\ stream' = [stream EXCEPT !.raised = TRUE]
  /\ StreamUnchanged

\* =================================================================== C22
StreamNext ==
  \/ \E e \in BOOLEAN : init("key", e, FALSE, MaxQueue, TRUE, TRUE)
  \/ \E w \in Wrappers, c \in BOOLEAN :
        Len(spans) < MaxPairSpans /\ WrapperCall(1, w, c)
  \/ \E r \in Responses, f \in BOOLEAN : WrapperReturn(1, r, f)
  \/ \E n \in 1..MaxChunks, f \in BOOLEAN : WrapperReturnStream(1, n, f)
  \/ StreamChunk
  \/ StreamRaise

SpecStream == Init /\ [][StreamNext]_vars

\* C22: while the stream returned by a wrapped chat-completion call still
\* has chunks to deliver and has not raised, its span has not been ended.
C22_SpanOpenWhileStreaming ==
  stream.span # NoSpan /\ stream.remaining > 0 /\ ~stream.raised
    => ~spans[stream.span]._ended


\* =================================================================== C23
\* Spans ended one after the other with no flush and no shutdown between
\* them, under every queue size up to MaxQueue.
QueueNext ==
  \/ \E q \in 1..MaxQueue : init("key", TRUE, FALSE, q, TRUE, TRUE)
  \/ \E i \in {NonePayload, Str("hello")} : trace(1, "chain", i, EmptyDict)
  \/ \E s \in SpanIds, f \in BOOLEAN : End(s, f)

SpecQueue == Init /\ [][QueueNext]_vars

\* the edges of the last n insert calls, oldest first
LastInserted(n) ==
  [i \in 1..n |-> insertLog[Len(insertLog) - n + i].edge]

CaptureNext ==
  \/ \E ci \in BOOLEAN, co \in BOOLEAN :
        init("key", TRUE, FALSE, MaxQueue, ci, co)
  \/ \E i \in {NonePayload, Str("hello")} :
        Len(spans) < MaxPayloadSpans /\ trace(1, "chain", i, EmptyDict)
  \/ \E s \in SpanIds : SetInput(s, Dict("hello"))
  \/ \E s \in SpanIds : SetOutput(s, Str("hello"))
  \/ \E s \in SpanIds : End(s, FALSE)
  \/ /\ Len(spans) < MaxPairSpans
     /\ TraceableCall(1, "chain", TRUE, TRUE, EmptyDict, Str("hello"))
  \/ TraceableReturn(1, Str("hello"), FALSE)
  \/ \E w \in {"wrap_openai", "wrap_method"} :
        Len(spans) < MaxPairSpans /\ WrapperCall(1, w, TRUE)
  \/ \E r \in {[content |-> "ok", usage |-> "ok"]} : WrapperReturn(1, r, FALSE)

SpecCapture == Init /\ [][CaptureNext]_vars

\* C24: an edge handed to insert while the configuration has capture_input
\* off has no "input" in its payload, and none has "output" while
\* capture_output is off.
C24_CaptureFlagsGateEdges ==
  [][insertLog' # insertLog =>
       LET payload == Last(insertLog').edge.payload
       IN /\ ~_config.capture_input => "input" \notin DOMAIN payload
          /\ ~_config.capture_output => "output" \notin DOMAIN payload]_vars

\* a span that holds input and output was sent with both flags off
C24_Witness ==
  /\ _config.set /\ ~_config.capture_input /\ ~_config.capture_output
  /\ \E i \in DOMAIN insertLog :
        /\ insertLog[i].raw_input # NonePayload
        /\ insertLog[i].raw_output # NonePayload
        /\ DOMAIN insertLog[i].edge.payload \cap {"input", "output"} = {}


\* ------------------------------------------- privacy.py: privacy_context
\* the patterns of extra_patterns appended before the first one that
\* re.compile rejects
RECURSIVE Compiled(_)
Compiled(extra_patterns) ==
  IF extra_patterns = << >> \/ compile(Head(extra_patterns)) # None
    THEN << >>
  ELSE <<Head(extra_patterns)>> \o Compiled(Tail(extra_patterns))

\* the innermost block unit u has entered and not left
InnermostBlock(u) ==
  LET open == {b \in DOMAIN blocks :
                 blocks[b].unit = u /\ blocks[b].state = "entered"}
  IN IF open = {} THEN 0 ELSE CHOOSE b \in open : \A c \in open : c <= b

PrivacyUnchanged ==
  UNCHANGED <<ctxOthers, sdkOthers, active_spans, sent, callback, stream,
              hookVars, now, spans, cv, usedTokens, nextToken, units, withStack,
              _initialized, _config, _batching_client, handles, insertLog,
              hist>>

\* `with privacy_context(redact_patterns=..., scrub_paths=...):` in unit u.
\* __enter__ copies the two global lists, then appends the patterns one by
\* one, compiling each; re.compile raises on a malformed pattern, after the
\* earlier ones were appended and before the paths are added, and __exit__
\* is not run for a block whose __enter__ raised.
PrivacyEnter(u, redact_patterns, scrub_paths) ==
  /\ Alive(u)
  /\ Len(blocks) < MaxBlocks
  /\ LET err == CompileError(redact_patterns)
     IN /\ blocks' = Append(blocks,
             [unit |-> u,
              state |-> IF err = None THEN "entered" ELSE "failed",
              _original_patterns |-> _privacy_config.redact_patterns,
              _original_paths |-> _privacy_config.scrub_paths])
        /\ _privacy_config' =
             [_privacy_config EXCEPT
                !.redact_patterns = @ \o Compiled(redact_patterns),
                !.scrub_paths = IF err = None THEN @ \o scrub_paths ELSE @]
        /\ raised' = Outcome("privacy_context", err, None)
  /\ PrivacyUnchanged

\* the block of unit u ends, normally or by an exception: __exit__ assigns
\* the lists saved by __enter__ and returns False
PrivacyExit(u, exc_val) ==
  /\ InnermostBlock(u) # 0
  /\ LET b == InnermostBlock(u)
     IN /\ _privacy_config' =
             [_privacy_config EXCEPT
                !.redact_patterns = blocks[b]._original_patterns,
                !.scrub_paths = blocks[b]._original_paths]
        /\ blocks' = [blocks EXCEPT ![b].state = "exited"]
  /\ raised' = Outcome("privacy_context", exc_val, None)
  /\ PrivacyUnchanged

\* =================================================================== C25
PrivacyContextNext ==
  \/ \E pattern \in {"key-\\d+"} : blocks = << >> /\ AddPattern(pattern)
  \/ SpawnThread(1, 2)
  \/ \E u \in Units, rp \in PatternLists,
        sp \in {<< >>, <<<<Seg("password")>>>>} : PrivacyEnter(u, rp, sp)
  \/ \E u \in Units, x \in Exceptions \cup {None} : PrivacyExit(u, x)

SpecPrivacyContext == Init /\ [][PrivacyContextNext]_vars

\* C25: when no privacy_context block is open, the global patterns and
\* scrub paths are those saved by the first block entered, i.e. those in
\* effect before any block.
C25_BlocksLeaveNoTrace ==
  blocks # << >> /\ (\A b \in DOMAIN blocks : blocks[b].state # "entered")
    => /\ _privacy_config.redact_patterns = blocks[1]._original_patterns
       /\ _privacy_config.scrub_paths = blocks[1]._original_paths


\* ------------------------------------ sdks/claude-code/plugin: the hooks
\* Each hook is a process of its own: it reads stdin, the environment and
\* the state file, may send one trace, prints its result and exits.
Hooks == {"SessionStart", "PreToolUse", "PostToolUse", "Stop"}
ToolHooks == {"PreToolUse", "PostToolUse"}
Tools == {"A", "B"}

\* stdin: a JSON object, nothing at all, or valid JSON that is not an object
Stdins == {"object", "empty", "list"}
\* AGENTREPLAY_TENANT_ID: a number, or text that int() rejects
TenantIds == {"1", "abc"}
HttpOutcomes == {"ok", "HTTPError", "timeout", "URLError"}

NoExit == -1
NoDuration == -1
EmptyState == [kind |-> "dict", parent_edge_id |-> None, tool_starts |-> [x \in {} |-> 0]]
CorruptFile == [kind |-> "corrupt"]    \* not JSON
ListFile == [kind |-> "list"]          \* JSON, but not an object

\* load_state: the parsed file, {} when it is missing or cannot be parsed
load_state(file) ==
  IF file.kind \in {"missing", "corrupt"} THEN EmptyState ELSE file

\* _send_request: the edge id of the response, None on every failure
_send_request(http) == IF http = "ok" THEN "edge" ELSE None

\* a handler written `except BaseException`
Catches_all(exc) == TRUE

\* `except Exception` in main: SystemExit is not an Exception
Catches(exc) == exc # "SystemExit"

\* main(): what the process has printed and its exit status, given what the
\* try block printed and the exception that left it.  The handler prints
\* {} and main goes on to sys.exit(0); SystemExit(0) raised inside the try
\* block ends the process with status 0.
Exits(printed, exc) ==
  IF exc = None THEN [stdout |-> printed, exit |-> 0]
  ELSE IF Catches(exc) THEN [stdout |-> Append(printed, "{}"), exit |-> 0]
  ELSE IF exc = "SystemExit" THEN [stdout |-> printed, exit |-> 0]
  ELSE [stdout |-> printed, exit |-> 1]

\* the exception raised in the try block before the state file is touched:
\* json.load(sys.stdin), get_config(), the enabled check, input_data.get
Early(hook, stdin, enabled, tenant_id) ==
  IF hook \in ToolHooks /\ stdin = "empty" THEN "JSONDecodeError"
  ELSE IF tenant_id = "abc" THEN "ValueError"
  ELSE IF ~enabled THEN "SystemExit"
  ELSE IF hook \in ToolHooks /\ stdin = "list" THEN "AttributeError"
  ELSE None

Process(hook, stdin, tool, call) ==
  [hook |-> hook, stdin |-> stdin, tool |-> tool, call |-> call,
   at |-> "start", state |-> EmptyState, edge_id |-> None, stdout |-> << >>,
   exit |-> NoExit, exc |-> None, duration |-> NoDuration]

Done(pr, printed, exc) ==
  LET e == Exits(printed, exc)
  IN [pr EXCEPT !.at = "done", !.stdout = e.stdout, !.exit = e.exit,
                !.exc = exc]

\* the object printed at the end of the try block
Message(hook) == IF hook = "SessionStart" THEN "systemMessage" ELSE "{}"

NewCall(tool) ==
  [tool |-> tool, start |-> NoTime, end |-> NoTime, reported |-> NoDuration,
   posted |-> FALSE]

HookUnchanged ==
  UNCHANGED <<ctxOthers, sdkOthers, active_spans, sent, callback, stream,
              blocks, now, spans, cv, usedTokens, nextToken, units, withStack,
              _initialized, _config, _batching_client, _privacy_config,
              handles, insertLog, raised, hist>>

\* A hook process starts and runs up to its first access to the state
\* file.  PreToolUse opens a tool invocation; PostToolUse runs for an
\* invocation whose PreToolUse has finished, or for one that had none.
HookStart(hook, stdin, enabled, tenant_id, http, tool, call) ==
  /\ Len(procs) < MaxHookRuns
  /\ IF hook \in ToolHooks THEN tool \in Tools ELSE tool = None /\ call = 0
  /\ hook = "PreToolUse" => call = Len(toolCalls) + 1
  /\ hook = "PostToolUse" =>
       \/ call = Len(toolCalls) + 1
       \/ /\ call \in DOMAIN toolCalls
          /\ toolCalls[call].tool = tool
          /\ \A q \in DOMAIN procs : procs[q].call = call =>
                procs[q].hook = "PreToolUse" /\ procs[q].at = "done"
  /\ LET pr == Process(hook, stdin, tool, call)
         exc == Early(hook, stdin, enabled, tenant_id)
     IN procs' = Append(procs,
          IF exc = "SystemExit" THEN Done(pr, <<"{}">>, exc)
          ELSE IF exc # None THEN Done(pr, << >>, exc)
          ELSE IF hook = "SessionStart"
            THEN IF _send_request(http) = None
                   THEN Done(pr, <<Message(hook)>>, None)
                 ELSE [pr EXCEPT !.at = "load",
                                 !.edge_id = _send_request(http)]
          ELSE [pr EXCEPT !.at = "load"])
  /\ toolCalls' = IF hook \in ToolHooks /\ call = Len(toolCalls) + 1
                    THEN Append(toolCalls, NewCall(tool))
                  ELSE toolCalls
  /\ UNCHANGED <<STATE_FILE, clock_ms>>
  /\ HookUnchanged

\* load_state() in record_tool_start, get_tool_duration, set_parent_edge_id
\* and get_parent_edge_id, and the change made to the loaded dict.  A file
\* that holds JSON other than an object makes the caller raise.
HookLoad(p) ==
  /\ p \in DOMAIN procs
  /\ procs[p].at = "load"
  /\ LET pr == procs[p]
         st == load_state(STATE_FILE)
         has == pr.tool \in DOMAIN st.tool_starts
         d == IF has THEN clock_ms - st.tool_starts[pr.tool] ELSE NoDuration
     IN IF st.kind = "list" \/ (pr.hook = "Stop" /\ pr.stdin = "list")
          THEN /\ procs' = [procs EXCEPT ![p] = Done(pr, << >>, "AttributeError")]
               /\ UNCHANGED <<toolCalls, clock_ms>>
        ELSE IF pr.hook = "PreToolUse"
          THEN /\ procs' = [procs EXCEPT ![p] =
                    [pr EXCEPT !.at = "save",
                               !.state = [st EXCEPT !.tool_starts =
                                            Put(@, pr.tool, clock_ms)]]]
               /\ toolCalls' = [toolCalls EXCEPT ![pr.call].start = clock_ms]
               /\ clock_ms' = clock_ms + 1
        ELSE IF pr.hook = "PostToolUse"
          THEN /\ procs' = [procs EXCEPT ![p] =
                    IF has
                      THEN [pr EXCEPT !.at = "save", !.duration = d,
                                      !.state = [st EXCEPT !.tool_starts =
                                                   Without(@, pr.tool)]]
                    ELSE Done(pr, <<"{}">>, None)]
               /\ toolCalls' = [toolCalls EXCEPT ![pr.call] =
                    [@ EXCEPT !.end = clock_ms, !.reported = d,
                              !.posted = TRUE]]
               /\ clock_ms' = clock_ms + 1
        ELSE /\ procs' = [procs EXCEPT ![p] =
                  [pr EXCEPT !.at = "save",
                             !.state = IF pr.hook = "Stop" THEN EmptyState
                                       ELSE [st EXCEPT !.parent_edge_id =
                                               pr.edge_id]]]
             /\ UNCHANGED <<toolCalls, clock_ms>>
  /\ UNCHANGED STATE_FILE
  /\ HookUnchanged

\* save_state(state): the whole file is replaced by the dict of this
\* process; then the trace is sent, the result printed, and main exits
HookSave(p) ==
  /\ p \in DOMAIN procs
  /\ procs[p].at = "save"
  /\ STATE_FILE' = procs[p].state
  /\ procs' = [procs EXCEPT ![p] = Done(@, <<Message(@.hook)>>, None)]
  /\ UNCHANGED <<toolCalls, clock_ms>>
  /\ HookUnchanged

\* something else leaves the state file missing, unparsable or not an object
FileTamper(file) ==
  /\ STATE_FILE # file
  /\ STATE_FILE' = file
  /\ UNCHANGED <<procs, toolCalls, clock_ms>>
  /\ HookUnchanged

\* no hook process is running
Quiet == \A q \in DOMAIN procs : procs[q].at = "done"

\* =================================================================== C26
\* One hook at a time, over every stdin, environment, state file and
\* outcome of the HTTP request.
HookExitNext ==
  \/ \E hook \in Hooks, stdin \in Stdins, enabled \in BOOLEAN,
        tenant_id \in TenantIds, http \in HttpOutcomes,
        tool \in {"A", None}, call \in 0..1 :
        /\ Quiet /\ Len(procs) < MaxExitRuns
        /\ HookStart(hook, stdin, enabled, tenant_id, http, tool, call)
  \/ \E p \in 1..MaxHookRuns : HookLoad(p)
  \/ \E p \in 1..MaxHookRuns : HookSave(p)
  \/ \E file \in {MissingFile, CorruptFile, ListFile} : FileTamper(file)

SpecHookExit == Init /\ [][HookExitNext]_vars

\* C26: a hook that has ended has exit status 0 and has printed exactly one
\* JSON object; a hook still running has printed nothing.
C26_HookExitsZeroWithOneObject ==
  \A p \in DOMAIN procs :
     IF procs[p].at = "done"
       THEN procs[p].exit = 0 /\ Len(procs[p].stdout) = 1
     ELSE procs[p].exit = NoExit /\ procs[p].stdout = << >>

\* a disabled hook has left through sys.exit(0) inside the try block and
\* another one has failed on a state file that is not an object
C26_Witness ==
  /\ \E p \in DOMAIN procs : procs[p].exc = "SystemExit"
  /\ \E p \in DOMAIN procs :
        procs[p].exc = "AttributeError" /\ STATE_FILE = ListFile


\* =================================================================== C28
\* PreToolUse and PostToolUse hooks run one at a time for tool invocations
\* that may overlap: a second invocation of a tool may start before the
\* PostToolUse of the first.
HookToolNext ==
  \/ \E tool \in Tools, http \in {"ok", "URLError"} :
        /\ Quiet
        /\ HookStart("PreToolUse", "object", TRUE, "1", http, tool,
                     Len(toolCalls) + 1)
  \/ \E tool \in Tools, call \in 1..MaxHookRuns :
        /\ Quiet
        /\ HookStart("PostToolUse", "object", TRUE, "1", "ok", tool, call)
  \/ \E p \in 1..MaxHookRuns : HookLoad(p)
  \/ \E p \in 1..MaxHookRuns : HookSave(p)

SpecHookTool == Init /\ [][HookToolNext]_vars

\* C28: the PostToolUse of an invocation reports the time since the
\* PreToolUse of that same invocation, and no duration when the invocation
\* had no PreToolUse.
C28_DurationOfSameInvocation ==
  \A c \in DOMAIN toolCalls :
     toolCalls[c].posted =>
       toolCalls[c].reported =
         IF toolCalls[c].start # NoTime
           THEN toolCalls[c].end - toolCalls[c].start
         ELSE NoDuration


\* =================================================================== C29
\* Hook processes of parallel tool invocations and of the session run
\* concurrently: their loads and saves of the state file interleave.
HookRaceNext ==
  \/ \E tool \in Tools :
        /\ Len(procs) < MaxRaceRuns
        /\ HookStart("PreToolUse", "object", TRUE, "1", "ok", tool,
                     Len(toolCalls) + 1)
  \/ \E tool \in Tools, call \in 1..MaxHookRuns :
        /\ Len(procs) < MaxRaceRuns
        /\ call \in DOMAIN toolCalls
        /\ HookStart("PostToolUse", "object", TRUE, "1", "ok", tool, call)
  \/ \E hook \in {"SessionStart", "Stop"} :
        /\ Len(procs) < MaxRaceRuns
        /\ HookStart(hook, "object", TRUE, "1", "ok", None, 0)
  \/ \E p \in 1..MaxHookRuns : HookLoad(p)
  \/ \E p \in 1..MaxHookRuns : HookSave(p)

SpecHookRace == Init /\ [][HookRaceNext]_vars

\* the hooks started so far that remove what hook process p has written
Undoes(p) ==
  {q \in DOMAIN procs :
     \/ procs[q].hook = "Stop"
     \/ procs[p].hook = "PreToolUse" /\ procs[q].hook = "PostToolUse"
                                     /\ procs[q].tool = procs[p].tool}

\* C29: once a PreToolUse or SessionStart hook has saved its update and no
\* hook that removes it has been started, the state file holds the update.
C29_NoLostUpdate ==
  \A p \in DOMAIN procs :
     procs[p].at = "done" /\ procs[p].exc = None /\ Undoes(p) = {} =>
       /\ procs[p].hook = "PreToolUse" =>
            procs[p].tool \in DOMAIN load_state(STATE_FILE).tool_starts
       /\ procs[p].hook = "SessionStart" =>
            load_state(STATE_FILE).parent_edge_id = procs[p].edge_id


\* ------------------------------------- sdk.py: init() on an initialized SDK
\* `with _lock:` at the head of init(), taken by thread t
InitLock(t) ==
  /\ Running(t) /\ Idle(t)
  /\ _initialized
  /\ _lock = 0
  /\ _lock' = t
  /\ pc' = Push(t, Frame("init", "locked"))
  /\ UNCHANGED <<_initialized, _config, _batching_client, _client, hooks,
                 raised, hist>>
  /\ SdkUnchanged

\* `if _initialized: return _config` inside the locked block: the lock is
\* released on the way out
InitLocked(t) ==
  /\ Running(t) /\ ~Idle(t)
  /\ Top(t).op = "init" /\ Top(t).at = "locked"
  /\ _lock' = 0
  /\ pc' = Pop(t)
  /\ raised' = NoExc
  /\ UNCHANGED <<_initialized, _config, _batching_client, _client, hooks,
                 hist>>
  /\ SdkUnchanged

\* =================================================================== C27
\* init(), shutdown() and a second init() step by step in two threads, with
\* SIGTERM / SIGINT arriving at the main thread at any point.
SignalNext ==
  \/ SpawnThread(1, 2)
  \/ \E e \in BOOLEAN : InitCall(1, "key", e, FALSE)
  \/ \E t \in Units : InitLock(t)
  \/ \E t \in Units : InitLocked(t)
  \/ \E t \in Units : Shutdown(t)
  \/ \E t \in Units : with_lock(t)
  \/ \E t \in Units : ShutdownLocked(t)
  \/ _signal_handler
  \/ _atexit_handler

SpecSignal == Init /\ [][SignalNext]_vars

\* C27: no call waits at `with _lock:` for a lock held by a call beneath it
\* on the stack of its own thread; such a wait never ends, because the
\* holder resumes only after the waiting call has returned.
C27_NoWaitForOwnLock ==
  \A t \in Units : ~Idle(t) /\ Top(t).at = "lock" => _lock # t


\* =================================================================== C30
\* Spans created by trace(), the traceable decorator and the client
\* wrappers, in the main thread, a task and a thread, inside and outside
\* `with` blocks.
LinkNext ==
  \/ SpawnTask(1, 2)
  \/ SpawnThread(1, 2)
  \/ \E u \in Units : trace(u, "chain", NonePayload, EmptyDict)
  \/ \E u \in Units, s \in SpanIds : Enter(u, s)
  \/ \E u \in Units : Exit(u, None, FALSE)
  \/ \E u \in Units :
        TraceableCall(u, "tool", FALSE, FALSE, EmptyDict, Str("hello"))
  \/ \E u \in Units : TraceableReturn(u, Str("hello"), FALSE)
  \/ \E u \in Units : WrapperCall(u, "wrap_openai", FALSE)
  \/ \E u \in Units : WrapperReturn(u, [content |-> "ok", usage |-> "ok"], FALSE)

SpecLink == Init /\ [][LinkNext]_vars

TraceIds == {spans[i].trace_id : i \in DOMAIN spans}

\* C30: a span created in a unit whose current span is p has parent_id p
\* and the trace_id of p; one created with no current span has no parent
\* and a trace_id no earlier span has; and every span has the trace_id of
\* its parent.
C30_ParentLinksShareTrace ==
  /\ [](\A c \in DOMAIN spans :
          HasParent(c) => spans[c].trace_id = spans[spans[c].parent_id].trace_id)
  /\ [][Len(spans') = Len(spans) + 1 =>
          LET id == Len(spans')
              current == get_current_span(hist'.expect[id].unit)
          IN IF current # NoSpan
               THEN /\ spans'[id].parent_id = current
                    /\ spans'[id].trace_id = spans[current].trace_id
             ELSE /\ spans'[id].parent_id = NoSpan
                  /\ spans'[id].trace_id \notin TraceIds]_vars

\* a span with its child, and a root span of another trace created later
C30_Witness ==
  /\ \E c \in DOMAIN spans : HasParent(c) /\ c < Len(spans)
  /\ ~HasParent(Len(spans))
  /\ Cardinality(TraceIds) = 2

====
